---- MODULE Spec2Model ----
(***************************************************************************)
(* linkWatch: the background checker (internal/checker) and the parts of   *)
(* the SQLite store (internal/store) it calls, as a state machine.         *)
(*                                                                         *)
(* Time is counted in sub-second units: SubSec units make one second, the  *)
(* resolution of the RFC3339 strings the store keeps.  The ticker fires    *)
(* every CheckInterval units.                                              *)
(***************************************************************************)
EXTENDS Integers, Sequences, FiniteSets, TLC

\* ------------------------------------------------------------------ bounds
MaxG == 3              \* largest configured max concurrency explored
MaxNow == 2            \* the clock stops advancing here
SubSec == 2            \* clock units per second
CheckInterval == 1     \* clock units between two ticks
MaxTargets == 3        \* most rows of table targets when the process starts
MaxTasks == 3          \* probe tasks spawned in one run
MaxStoreFaults == 1    \* store calls that fail for the store's own reasons
PageLimit == 1         \* the list limit (1000) scaled down, in PagedSpec
MaxApiTargets == 2     \* most rows of table targets when Shutdown is called twice
MaxApiNow == 1         \* the clock stops here in StartTwiceSpec and RegisterSpec
MaxResults == 3        \* most rows of table check_results, in ResultsSpec
MaxRows == 3           \* most rows of table targets, in PagingSpec
MaxIDs == 3            \* ids generateID can draw, in PagingSpec
MaxCalls == 4          \* calls on the idempotency-key store, in KeysSpec
MaxReqs == 3           \* POST /v1/targets requests, in RegisterSpec
MaxInFlight == 2       \* requests being served at a time, in RegisterSpec
ShutdownGrace == 1     \* c.shutdownGrace in clock units, in TimedSpec
MaxCallers == 3        \* goroutines calling acquireHostSemaphore, in LimiterSpec
MaxNestedG == 4        \* largest max concurrency, in NestedSpec
MaxNestedTargets == 5  \* targets of the one host, in NestedSpec

\* --------------------------------------------------------- program constants
HostCap == 2           \* make(chan struct{}, 2)
ListLimit == 1000      \* GetTargets(..., 1000)

Nil == "nil"            \* a nil error
NULL == {}              \* a nil pointer / SQL NULL; a present value v is {v}
ZeroTime == 0 - 1      \* time.Time{}, before every instant of the clock

\* ------------------------------------------------------------------ inputs
\* canonical URLs that can be registered, and the host of each
URLs == {"a/1", "a/2", "a/3", "b/1"}
Host(url) == IF url = "b/1" THEN "b" ELSE "a"
Hosts == {Host(u) : u \in URLs}

\* what client.Get can return: a response of any status class, or a
\* transport error
Responses == {[StatusCode |-> 200], [StatusCode |-> 503]}
TransportErrors == {"timeout"}
GetOutcomes == {[resp |-> {r}, err |-> Nil] : r \in Responses}
                 \cup {[resp |-> NULL, err |-> e] : e \in TransportErrors}
\* the remote side in this model: what a GET of each URL can return
Remote(url) ==
  IF url = "a/1" THEN {o \in GetOutcomes : o.err = Nil}
  ELSE IF url = "a/2" THEN {o \in GetOutcomes : o.err # Nil}
  ELSE {[resp |-> {[StatusCode |-> 200]}, err |-> Nil]}
TheOne(S) == CHOOSE x \in S : TRUE

VARIABLES
  \* --- Checker fields
  maxConcurrency,   \* c.maxConcurrency = cap(c.workers)
  workers,          \* number of tokens in the c.workers channel
  hostSemaphores,   \* host -> number of tokens in that host's channel
  ctxDone,          \* c.ctx has been cancelled
  wg,               \* counter of c.wg
  \* --- goroutines
  started,          \* Start has been called
  sched,            \* the scheduler goroutine: pc, fetched list, loop index
  tickPending,      \* a tick is buffered in ticker.C
  tasks,            \* the checkTarget goroutines, in spawn order; slots are
                    \* the limiter slots the task holds, atCancel marks a
                    \* task whose GET was in flight when cancel() ran
  sd,               \* the Shutdown call: pc and reported outcome
  \* --- environment
  now,              \* wall clock
  \* --- store tables
  targets,          \* rows of table targets, in insertion order
  check_results,    \* rows of table check_results; id = position
  \* --- history
  passCount,        \* number of scheduleChecks calls so far
  storeFaults,      \* number of store calls the store has failed
  \* --- repeated calls of the API (only ApiSpec makes them)
  sched2,           \* the scheduler goroutine of a second Start call
  tickPending2,     \* a tick buffered in that goroutine's ticker.C
  sd2,              \* a second Shutdown call: pc and reported outcome
  \* --- the HTTP API and direct calls (only the service specs make them)
  idempotency_keys, \* rows of table idempotency_keys, in insertion order
  reqs,             \* POST /v1/targets requests: position and response
  call,             \* the last direct call: operation, arguments, return
  pager,            \* a client listing the targets page after page
  \* --- the limiter map, lock by lock (only LimiterSpec steps it)
  hostMutex,        \* c.hostMutex: the writer and the readers holding it
  semOf,            \* c.hostSemaphores: host -> the channel made for it
  chans,            \* the channels made so far: tokens in each, by identity
  callers           \* goroutines in acquire/releaseHostSemaphore

checkerVars == <<maxConcurrency, workers, hostSemaphores, ctxDone, wg>>
procVars == <<started, sched, tickPending, tasks, sd>>
storeVars == <<targets, check_results>>
histVars == <<passCount, storeFaults>>
apiVars == <<sched2, tickPending2, sd2>>
svcVars == <<idempotency_keys, reqs, call, pager>>
limVars == <<hostMutex, semOf, chans, callers>>
restVars == <<apiVars, svcVars, limVars>>
vars == <<checkerVars, procVars, now, storeVars, histVars, apiVars, svcVars,
          limVars>>

\* ------------------------------------------------------------ store helpers
formatTime(t) == t \div SubSec          \* t.Format(time.RFC3339): whole seconds
parseTime(s) == s * SubSec              \* time.Parse(time.RFC3339, s)

\* ORDER BY created_at, id
TargetBefore(r1, r2) ==
  \/ r1.created_at < r2.created_at
  \/ r1.created_at = r2.created_at /\ r1.id < r2.id

RECURSIVE OrderRows(_)
OrderRows(S) ==
  IF S = {} THEN << >>
  ELSE LET first == CHOOSE r \in S : \A o \in S \ {r} : TargetBefore(r, o)
       IN  <<first>> \o OrderRows(S \ {first})

Take(s, n) == IF Len(s) <= n THEN s ELSE SubSeq(s, 1, n)

Rows(table) == {table[i] : i \in 1..Len(table)}

\* SQLiteStore.GetTargets on a table: the page and the cursor
GetTargets(table, hostFilter, afterCreatedAt, afterID, limit) ==
  LET ts == formatTime(afterCreatedAt)
      matching == {r \in Rows(table) :
                     /\ (hostFilter # "" => r.host = hostFilter)
                     /\ (afterCreatedAt # ZeroTime =>
                           \/ r.created_at > ts
                           \/ r.created_at = ts /\ r.id > afterID)}
      page == Take(OrderRows(matching), limit)
      scanned == [i \in 1..Len(page) |->
                    [ID |-> page[i].id, URL |-> page[i].url, Host |-> page[i].host,
                     CreatedAt |-> parseTime(page[i].created_at)]]
  IN  IF Len(scanned) = 0
      THEN [targets |-> << >>, cursor |-> NULL]
      ELSE [targets |-> scanned,
            cursor |-> {[CreatedAt |-> scanned[Len(scanned)].CreatedAt,
                         ID |-> scanned[Len(scanned)].ID]}]

\* the row InsertCheckResult writes for a result
ResultRow(r) ==
  [target_id |-> r.TargetID, checked_at |-> formatTime(r.CheckedAt),
   status_code |-> r.StatusCode, latency_ms |-> r.LatencyMs, error |-> r.Error]

\* a probe executor that records a status code whatever client.Get returned
performCheckAlwaysStatus(target, start, end, got) ==
  LET result == [TargetID |-> target.ID, CheckedAt |-> end,
                 LatencyMs |-> end - start, StatusCode |-> NULL, Error |-> NULL]
  IN  IF got.err # Nil
      THEN [result EXCEPT !.Error = {got.err}, !.StatusCode = {0}]
      ELSE [result EXCEPT !.StatusCode = {TheOne(got.resp).StatusCode}]

\* Checker.performCheck: the result built from what client.Get returned
performCheck(target, start, end, got) ==
  LET result == [TargetID |-> target.ID, CheckedAt |-> end,
                 LatencyMs |-> end - start, StatusCode |-> NULL, Error |-> NULL]
  IN  IF got.err # Nil
      THEN [result EXCEPT !.Error = {got.err}]
      ELSE [result EXCEPT !.StatusCode = {TheOne(got.resp).StatusCode}]

\* ------------------------------------------------------------------- Init
\* the registered URLs when the process starts, in registration order:
\* targets sharing host a, with or without one on host b
InitialURLLists ==
  {l \in {<<"a/1">>, <<"a/1", "a/2">>, <<"a/1", "b/1">>, <<"a/1", "a/2", "a/3">>,
          <<"a/1", "a/2", "b/1">>, <<"a/1", "a/2", "a/3", "b/1">>} :
     Len(l) <= MaxTargets}

InitialRows(l) ==
  [i \in 1..Len(l) |-> [id |-> i, url |-> l[i], host |-> Host(l[i]),
                        created_at |-> formatTime(0)]]

Init ==
  /\ maxConcurrency \in 1..MaxG
  /\ workers = 0
  /\ hostSemaphores = [h \in {} |-> 0]
  /\ ctxDone = FALSE
  /\ wg = 0
  /\ started = FALSE
  /\ sched = [pc |-> "none", nextTick |-> 0, targets |-> << >>, idx |-> 1]
  /\ tickPending = FALSE
  /\ tasks = << >>
  /\ sd = [pc |-> "idle", outcome |-> "none"]
  /\ now = 0
  /\ \E l \in InitialURLLists : targets = InitialRows(l)
  /\ check_results = << >>
  /\ passCount = 0
  /\ storeFaults = 0
  /\ sched2 = [pc |-> "none", nextTick |-> 0, targets |-> << >>, idx |-> 1]
  /\ tickPending2 = FALSE
  /\ sd2 = [pc |-> "idle", outcome |-> "none"]
  /\ idempotency_keys = << >>
  /\ reqs = << >>
  /\ call = [op |-> "none"]
  /\ pager = [pc |-> "idle"]
  /\ hostMutex = [writer |-> {}, readers |-> {}]
  /\ semOf = [h \in {} |-> 0]
  /\ chans = << >>
  /\ callers = << >>

\* ------------------------------------------------------------- environment
\* targets a pass fetched now or later can list
MaxList == Len(targets)

\* tasks spawned so far plus those the passes already due can still spawn,
\* a pass listing at most maxList targets
CommittedWith(maxList) ==
  Len(tasks)
  + (IF sched.pc = "admit" THEN Len(sched.targets) - sched.idx + 1 ELSE 0)
  + (IF sched.pc = "scheduleChecks" THEN maxList ELSE 0)
  + (IF tickPending THEN maxList ELSE 0)

Committed == CommittedWith(MaxList)

TickerFires == sched.pc \notin {"none", "exited"} /\ now + 1 >= sched.nextTick

\* time passes; a running ticker whose interval has elapsed buffers a tick
\* (ticker.C has room for one).  Time stops when a further pass would exceed
\* the MaxTasks budget of the model.
ClockAdvanceWith(maxList) ==
  /\ started                            \* the clock counts from Start
  /\ now < MaxNow
  /\ TickerFires => CommittedWith(maxList) + maxList <= MaxTasks
  /\ now' = now + 1
  /\ IF TickerFires
     THEN /\ tickPending' = TRUE
          /\ sched' = [sched EXCEPT !.nextTick = @ + CheckInterval]
     ELSE UNCHANGED <<tickPending, sched>>
  /\ UNCHANGED <<checkerVars, started, tasks, sd, storeVars, histVars>>

ClockAdvance == ClockAdvanceWith(MaxList)

\* the store serves a call (storeOk) or fails it, within the fault budget
StoreAnswers(storeOk) ==
  /\ ~storeOk => storeFaults < MaxStoreFaults
  /\ storeFaults' = IF storeOk THEN storeFaults ELSE storeFaults + 1

\* --------------------------------------------------------------- scheduler
\* Checker.Start: wg.Add(1); go c.scheduler(), which creates its ticker
Start ==
  /\ ~started
  /\ started' = TRUE
  /\ wg' = wg + 1
  /\ sched' = [sched EXCEPT !.pc = "select", !.nextTick = now + CheckInterval]
  /\ UNCHANGED <<maxConcurrency, workers, hostSemaphores, ctxDone, tickPending,
                 tasks, sd, now, storeVars, histVars>>

\* Checker.scheduler, select case <-c.ctx.Done(): return (wg.Done, ticker.Stop)
schedulerCtxDone ==
  /\ sched.pc = "select"
  /\ ctxDone
  /\ sched' = [sched EXCEPT !.pc = "exited"]
  /\ wg' = wg - 1
  /\ UNCHANGED <<maxConcurrency, workers, hostSemaphores, ctxDone, started,
                 tickPending, tasks, sd, now, storeVars, histVars>>

\* a ticker that calls scheduleChecks from its own callback, whatever the
\* loop is doing
schedulerTickReentrant ==
  /\ sched.pc \in {"select", "admit"}
  /\ tickPending
  /\ tickPending' = FALSE
  /\ sched' = [sched EXCEPT !.pc = "scheduleChecks", !.targets = << >>, !.idx = 1]
  /\ passCount' = passCount + 1
  /\ UNCHANGED <<checkerVars, started, tasks, sd, now, storeVars, storeFaults>>

\* Checker.scheduler, select case <-ticker.C: c.scheduleChecks()
\* (a select with several ready cases takes any of them)
schedulerTick ==
  /\ sched.pc = "select"
  /\ tickPending
  /\ tickPending' = FALSE
  /\ sched' = [sched EXCEPT !.pc = "scheduleChecks", !.targets = << >>, !.idx = 1]
  /\ passCount' = passCount + 1
  /\ UNCHANGED <<checkerVars, started, tasks, sd, now, storeVars, storeFaults>>

\* a range loop that stops one element early
AfterIterationOffByOne(s) ==
  IF s.idx >= Len(s.targets) THEN [s EXCEPT !.pc = "select"] ELSE s

\* after the last iteration of the range loop scheduleChecks returns
AfterIteration(s) ==
  IF s.idx > Len(s.targets) THEN [s EXCEPT !.pc = "select"] ELSE s

\* a scheduleChecks whose listing error ends the scheduler goroutine
scheduleChecksFetchFatal(storeOk) ==
  /\ sched.pc = "scheduleChecks"
  /\ ctxDone => storeOk
  /\ StoreAnswers(storeOk)
  /\ IF ctxDone \/ ~storeOk
     THEN sched' = [sched EXCEPT !.pc = "exited"] /\ wg' = wg - 1
     ELSE LET got == GetTargets(targets, "", ZeroTime, "", ListLimit)
          IN  /\ sched' = AfterIteration(
                   [sched EXCEPT !.pc = "admit", !.targets = got.targets, !.idx = 1])
              /\ wg' = wg
  /\ UNCHANGED <<maxConcurrency, workers, hostSemaphores, ctxDone, started,
                 tickPending, tasks, sd, now, storeVars, passCount>>

\* Checker.scheduleChecks, the GetTargets call with its LIMIT: the query
\* fails on a cancelled context and when the store is unavailable
scheduleChecksFetchWith(storeOk, limit) ==
  /\ sched.pc = "scheduleChecks"
  /\ ctxDone => storeOk                 \* the store is not reached
  /\ StoreAnswers(storeOk)
  /\ IF ctxDone \/ ~storeOk
     THEN sched' = [sched EXCEPT !.pc = "select"]
     ELSE LET got == GetTargets(targets, "", ZeroTime, "", limit)
          IN  sched' = AfterIteration(
                [sched EXCEPT !.pc = "admit", !.targets = got.targets, !.idx = 1])
  /\ UNCHANGED <<checkerVars, started, tickPending, tasks, sd, now, storeVars,
                 passCount>>

\* the call as the code makes it: GetTargets(c.ctx, "", time.Time{}, "", 1000)
scheduleChecksFetch(storeOk) == scheduleChecksFetchWith(storeOk, ListLimit)

\* a select with a default case: a saturated limiter skips the target
scheduleChecksDefaultCase ==
  /\ sched.pc = "admit"
  /\ \/ ctxDone /\ sched' = [sched EXCEPT !.pc = "select"]
     \/ workers >= maxConcurrency /\ sched' = AfterIteration([sched EXCEPT !.idx = @ + 1])
  /\ UNCHANGED <<checkerVars, started, tickPending, tasks, sd, now, storeVars,
                 histVars>>

\* Checker.scheduleChecks, select case <-c.ctx.Done(): return
scheduleChecksCtxDone ==
  /\ sched.pc = "admit"
  /\ ctxDone
  /\ sched' = [sched EXCEPT !.pc = "select"]
  /\ UNCHANGED <<checkerVars, started, tickPending, tasks, sd, now, storeVars,
                 histVars>>

NoGot == [resp |-> NULL, err |-> Nil]

\* the goroutine go c.checkTarget(target) starts, about to take its host slot
NewTask(target, pass) ==
  [target |-> target, pass |-> pass, pc |-> "acquireHostSemaphore",
   slots |-> {"global"}, start |-> 0, got |-> NoGot, result |-> NULL,
   atCancel |-> FALSE]

\* c.workers <- struct{}{} can proceed: the channel, made with capacity
\* maxConcurrency, has room
workersFreeOffByOne == workers <= maxConcurrency
workersFree == workers < maxConcurrency

\* Checker.scheduleChecks, select case c.workers <- struct{}{}:
\* wg.Add(1); go c.checkTarget(target)
scheduleChecksAdmit ==
  /\ sched.pc = "admit"
  /\ workersFree
  /\ workers' = workers + 1
  /\ wg' = wg + 1
  /\ tasks' = Append(tasks, NewTask(sched.targets[sched.idx], passCount))
  /\ sched' = AfterIteration([sched EXCEPT !.idx = @ + 1])
  /\ UNCHANGED <<maxConcurrency, hostSemaphores, ctxDone, started, tickPending,
                 sd, now, storeVars, histVars>>

\* ------------------------------------------------------------------- tasks
TaskIds == 1..Len(tasks)

\* Checker.acquireHostSemaphore, the locked part: the host's semaphore,
\* created empty when the host has none
WithSemaphore(sems, host) ==
  IF host \in DOMAIN sems THEN sems
  ELSE [h \in DOMAIN sems \cup {host} |-> IF h = host THEN 0 ELSE sems[h]]

\* sem <- struct{}{} can proceed: the host's channel has room
hostSemFreeOffByOne(sems, host) == sems[host] <= HostCap
hostSemFree(sems, host) == sems[host] < HostCap

\* a checkTarget that goes on into performCheck without taking the host slot
acquireHostSemaphoreSkipped(t) ==
  /\ tasks[t].pc = "acquireHostSemaphore"
  /\ hostSemaphores' = WithSemaphore(hostSemaphores, tasks[t].target.Host)
  /\ tasks' = [tasks EXCEPT ![t].pc = "performCheck", ![t].start = now]
  /\ UNCHANGED <<maxConcurrency, workers, ctxDone, wg, started, sched,
                 tickPending, sd, now, storeVars, histVars>>

\* Checker.acquireHostSemaphore, select case sem <- struct{}{}: return true;
\* checkTarget defers the release and goes on into performCheck, which
\* sends the GET
acquireHostSemaphoreSend(t) ==
  /\ tasks[t].pc = "acquireHostSemaphore"
  /\ LET host == tasks[t].target.Host
         sems == WithSemaphore(hostSemaphores, host)
     IN  /\ hostSemFree(sems, host)
         /\ hostSemaphores' = [sems EXCEPT ![host] = @ + 1]
  /\ tasks' = [tasks EXCEPT ![t].pc = "performCheck", ![t].start = now,
                            ![t].slots = @ \cup {"host"}]
  /\ UNCHANGED <<maxConcurrency, workers, ctxDone, wg, started, sched,
                 tickPending, sd, now, storeVars, histVars>>

\* a cancelled wait that returns without running the deferred <-c.workers
acquireHostSemaphoreCtxDoneLeaks(t) ==
  /\ tasks[t].pc = "acquireHostSemaphore"
  /\ ctxDone
  /\ hostSemaphores' = WithSemaphore(hostSemaphores, tasks[t].target.Host)
  /\ tasks' = [tasks EXCEPT ![t].pc = "wgDone"]
  /\ UNCHANGED <<maxConcurrency, workers, ctxDone, wg, started, sched,
                 tickPending, sd, now, storeVars, histVars>>

\* a select on the host channel alone: the wait ends only when the host has
\* a free slot
acquireHostSemaphoreCtxDoneBlind(t) ==
  /\ tasks[t].pc = "acquireHostSemaphore"
  /\ ctxDone
  /\ hostSemFree(WithSemaphore(hostSemaphores, tasks[t].target.Host),
                 tasks[t].target.Host)
  /\ hostSemaphores' = WithSemaphore(hostSemaphores, tasks[t].target.Host)
  /\ tasks' = [tasks EXCEPT ![t].pc = "releaseWorker"]
  /\ UNCHANGED <<maxConcurrency, workers, ctxDone, wg, started, sched,
                 tickPending, sd, now, storeVars, histVars>>

\* a checkTarget that defers the host release before it has the slot
acquireHostSemaphoreCtxDoneDefersRelease(t) ==
  /\ tasks[t].pc = "acquireHostSemaphore"
  /\ ctxDone
  /\ hostSemaphores' = WithSemaphore(hostSemaphores, tasks[t].target.Host)
  /\ tasks' = [tasks EXCEPT ![t].pc = "releaseHost"]
  /\ UNCHANGED <<maxConcurrency, workers, ctxDone, wg, started, sched,
                 tickPending, sd, now, storeVars, histVars>>

\* Checker.acquireHostSemaphore, select case <-c.ctx.Done(): return false;
\* checkTarget returns before the host release is deferred
acquireHostSemaphoreCtxDone(t) ==
  /\ tasks[t].pc = "acquireHostSemaphore"
  /\ ctxDone
  /\ hostSemaphores' = WithSemaphore(hostSemaphores, tasks[t].target.Host)
  /\ tasks' = [tasks EXCEPT ![t].pc = "releaseWorker"]
  /\ UNCHANGED <<maxConcurrency, workers, ctxDone, wg, started, sched,
                 tickPending, sd, now, storeVars, histVars>>

\* a checkTarget that stops the checker when its probe fails
InsertCheckResultAbortsOnError(t, got, storeOk) ==
  /\ tasks[t].pc = "performCheck"
  /\ ctxDone => storeOk
  /\ StoreAnswers(storeOk)
  /\ LET result == performCheck(tasks[t].target, tasks[t].start, now, got)
         err == IF ctxDone THEN "canceled" ELSE IF ~storeOk THEN "store" ELSE Nil
     IN  /\ tasks' = [tasks EXCEPT ![t].pc = "releaseHost", ![t].got = got,
                                   ![t].result = {result}]
         /\ check_results' = IF err = Nil
                             THEN Append(check_results, ResultRow(result))
                             ELSE check_results
  /\ ctxDone' = (ctxDone \/ got.err # Nil)
  /\ UNCHANGED <<maxConcurrency, workers, hostSemaphores, wg, started, sched,
                 tickPending, sd, now, targets, passCount>>

\* a checkTarget that calls InsertCheckResult again when the store rejected
\* the write
InsertCheckResultRetriesWrite(t, got, storeOk) ==
  /\ tasks[t].pc = "performCheck"
  /\ ctxDone => storeOk
  /\ StoreAnswers(storeOk)
  /\ LET result == performCheck(tasks[t].target, tasks[t].start, now, got)
         err == IF ctxDone THEN "canceled" ELSE IF ~storeOk THEN "store" ELSE Nil
     IN  /\ tasks' = [tasks EXCEPT
                        ![t].pc = IF err = "store" THEN "performCheck" ELSE "releaseHost",
                        ![t].got = got, ![t].result = {result}]
         /\ check_results' = IF err = Nil
                             THEN Append(check_results, ResultRow(result))
                             ELSE check_results
  /\ UNCHANGED <<checkerVars, started, sched, tickPending, sd, now, targets,
                 passCount>>

\* a performCheck that sends the GET again when it failed
InsertCheckResultRetriesGet(t, got, storeOk) ==
  /\ tasks[t].pc = "performCheck"
  /\ ctxDone => storeOk
  /\ StoreAnswers(storeOk)
  /\ LET result == performCheck(tasks[t].target, tasks[t].start, now, got)
         err == IF ctxDone THEN "canceled" ELSE IF ~storeOk THEN "store" ELSE Nil
         again == got.err # Nil /\ tasks[t].got.err = Nil
     IN  /\ tasks' = [tasks EXCEPT
                        ![t].pc = IF again THEN "performCheck" ELSE "releaseHost",
                        ![t].got = got,
                        ![t].result = IF again THEN NULL ELSE {result}]
         /\ check_results' = IF err = Nil /\ ~again
                             THEN Append(check_results, ResultRow(result))
                             ELSE check_results
  /\ UNCHANGED <<checkerVars, started, sched, tickPending, sd, now, targets,
                 passCount>>

\* a checkTarget that writes with a context of its own, which Shutdown does
\* not cancel
InsertCheckResultDetached(t, got, storeOk) ==
  /\ tasks[t].pc = "performCheck"
  /\ StoreAnswers(storeOk)
  /\ LET result == performCheck(tasks[t].target, tasks[t].start, now, got)
     IN  /\ tasks' = [tasks EXCEPT ![t].pc = "releaseHost", ![t].got = got,
                                   ![t].result = {result}]
         /\ check_results' = IF storeOk
                             THEN Append(check_results, ResultRow(result))
                             ELSE check_results
  /\ UNCHANGED <<checkerVars, started, sched, tickPending, sd, now, targets,
                 passCount>>

\* Checker.checkTarget from the return of client.Get: performCheck builds
\* the result and c.store.InsertCheckResult(c.ctx, result) writes it;
\* ExecContext fails on a cancelled context and when the store rejects the
\* write, and the error is only logged
InsertCheckResult(t, got, storeOk) ==
  /\ tasks[t].pc = "performCheck"
  /\ ctxDone => storeOk                 \* the store is not reached
  /\ StoreAnswers(storeOk)
  /\ LET result == performCheck(tasks[t].target, tasks[t].start, now, got)
         err == IF ctxDone THEN "canceled" ELSE IF ~storeOk THEN "store" ELSE Nil
     IN  /\ tasks' = [tasks EXCEPT ![t].pc = "releaseHost", ![t].got = got,
                                   ![t].result = {result}]
         /\ check_results' = IF err = Nil
                             THEN Append(check_results, ResultRow(result))
                             ELSE check_results
  /\ UNCHANGED <<checkerVars, started, sched, tickPending, sd, now, targets,
                 passCount>>

\* a deferred release that gives the global slot back in place of the host slot
releaseHostSemaphoreWorkerFirst(t) ==
  /\ tasks[t].pc = "releaseHost"
  /\ workers > 0
  /\ workers' = workers - 1
  /\ tasks' = [tasks EXCEPT ![t].pc = "releaseWorker", ![t].slots = @ \ {"global"}]
  /\ UNCHANGED <<maxConcurrency, hostSemaphores, ctxDone, wg, started, sched,
                 tickPending, sd, now, storeVars, histVars>>

\* a deferred release that leaves the token in the host channel
releaseHostSemaphoreKeepsSlot(t) ==
  /\ tasks[t].pc = "releaseHost"
  /\ tasks' = [tasks EXCEPT ![t].pc = "releaseWorker", ![t].slots = @ \ {"host"}]
  /\ UNCHANGED <<maxConcurrency, workers, hostSemaphores, ctxDone, wg, started,
                 sched, tickPending, sd, now, storeVars, histVars>>

\* Checker.releaseHostSemaphore (deferred in checkTarget)
releaseHostSemaphore(t) ==
  /\ tasks[t].pc = "releaseHost"
  /\ LET host == tasks[t].target.Host
     IN  IF host \in DOMAIN hostSemaphores
         THEN /\ hostSemaphores[host] > 0
              /\ hostSemaphores' = [hostSemaphores EXCEPT ![host] = @ - 1]
         ELSE UNCHANGED hostSemaphores
  /\ tasks' = [tasks EXCEPT ![t].pc = "releaseWorker", ![t].slots = @ \ {"host"}]
  /\ UNCHANGED <<maxConcurrency, workers, ctxDone, wg, started, sched,
                 tickPending, sd, now, storeVars, histVars>>

\* checkTarget, deferred func() { <-c.workers }()
releaseWorker(t) ==
  /\ tasks[t].pc = "releaseWorker"
  /\ workers > 0
  /\ workers' = workers - 1
  /\ tasks' = [tasks EXCEPT ![t].pc = "wgDone", ![t].slots = @ \ {"global"}]
  /\ UNCHANGED <<maxConcurrency, hostSemaphores, ctxDone, wg, started, sched,
                 tickPending, sd, now, storeVars, histVars>>

\* checkTarget, deferred c.wg.Done(): the goroutine ends, its locals are gone
wgDone(t) ==
  /\ tasks[t].pc = "wgDone"
  /\ wg' = wg - 1
  /\ tasks' = [tasks EXCEPT ![t].pc = "done", ![t].start = 0, ![t].got = NoGot,
                            ![t].result = NULL, ![t].atCancel = FALSE]
  /\ UNCHANGED <<maxConcurrency, workers, hostSemaphores, ctxDone, started,
                 sched, tickPending, sd, now, storeVars, histVars>>

\* ---------------------------------------------------------------- shutdown
\* Checker.Shutdown: c.cancel(), then the waiter goroutine and the timer start
Shutdown ==
  /\ started
  /\ sd.pc = "idle"
  /\ ctxDone' = TRUE
  /\ sd' = [sd EXCEPT !.pc = "waiting"]
  /\ tasks' = [t \in TaskIds |->
                 [tasks[t] EXCEPT !.atCancel = (tasks[t].pc = "performCheck")]]
  /\ UNCHANGED <<maxConcurrency, workers, hostSemaphores, wg, started, sched,
                 tickPending, now, storeVars, histVars>>

\* Checker.Shutdown, select case <-done: c.wg.Wait() has returned in the
\* waiter goroutine, which closed done
ShutdownGraceful ==
  /\ sd.pc = "waiting"
  /\ wg = 0
  /\ sd' = [sd EXCEPT !.pc = "returned", !.outcome = "graceful"]
  /\ UNCHANGED <<checkerVars, started, sched, tickPending, tasks, now, storeVars,
                 histVars>>

\* a Shutdown that only waits for the WaitGroup: no timer case
ShutdownTimedOutBlocks ==
  /\ sd.pc = "waiting"
  /\ wg = 0
  /\ sd' = [sd EXCEPT !.pc = "returned", !.outcome = "timeout"]
  /\ UNCHANGED <<checkerVars, started, sched, tickPending, tasks, now, storeVars,
                 histVars>>

\* Checker.Shutdown, select case <-time.After(c.shutdownGrace): the grace
\* period elapses and the select takes the timer (also when done is closed)
ShutdownTimedOut ==
  /\ sd.pc = "waiting"
  /\ sd' = [sd EXCEPT !.pc = "returned", !.outcome = "timeout"]
  /\ UNCHANGED <<checkerVars, started, sched, tickPending, tasks, now, storeVars,
                 histVars>>

\* ------------------------------------------------------------ specification
TaskStep(t) ==
  \/ acquireHostSemaphoreSend(t)
  \/ acquireHostSemaphoreCtxDone(t)
  \/ \E got \in Remote(tasks[t].target.URL), storeOk \in BOOLEAN :
       InsertCheckResult(t, got, storeOk)
  \/ releaseHostSemaphore(t)
  \/ releaseWorker(t)
  \/ wgDone(t)

SchedulerStep ==
  \/ schedulerCtxDone
  \/ schedulerTick
  \/ \E storeOk \in BOOLEAN : scheduleChecksFetch(storeOk)
  \/ scheduleChecksCtxDone
  \/ scheduleChecksAdmit

ShutdownStep ==
  \/ Shutdown
  \/ ShutdownGraceful
  \/ ShutdownTimedOut

\* main calls Start once and Shutdown once
Next ==
  \/ ClockAdvance /\ UNCHANGED restVars
  \/ Start /\ UNCHANGED restVars
  \/ SchedulerStep /\ UNCHANGED restVars
  \/ \E t \in TaskIds : TaskStep(t) /\ UNCHANGED restVars
  \/ ShutdownStep /\ UNCHANGED restVars

Spec == Init /\ [][Next]_vars

\* The Go runtime runs every goroutine that can run: the scheduler goroutine
\* takes a free global slot, and each probe task takes its next step (the
\* GET returns within httpTimeout).
FairSpec ==
  /\ Spec
  /\ WF_vars(scheduleChecksAdmit /\ UNCHANGED restVars)
  /\ \A t \in 1..MaxTasks :
       WF_vars(t \in TaskIds /\ TaskStep(t) /\ UNCHANGED restVars)

\* The timer of time.After(c.shutdownGrace) fires: the grace period elapses
\* whatever the goroutines do.  Nothing is assumed about the probe tasks,
\* which may stall for ever.
GraceSpec == Spec /\ WF_vars(ShutdownTimedOut /\ UNCHANGED restVars)

\* ------------------------------------------------- more targets than LIMIT
\* The same program with the list limit scaled down from 1000 to PageLimit,
\* started on a table that holds more targets than the limit.
PagedInit == Init /\ Len(targets) > PageLimit

PagedSchedulerStep ==
  \/ schedulerCtxDone
  \/ schedulerTick
  \/ \E storeOk \in BOOLEAN : scheduleChecksFetchWith(storeOk, PageLimit)
  \/ scheduleChecksCtxDone
  \/ scheduleChecksAdmit

PagedNext ==
  \/ ClockAdvanceWith(PageLimit) /\ UNCHANGED restVars
  \/ Start /\ UNCHANGED restVars
  \/ PagedSchedulerStep /\ UNCHANGED restVars
  \/ \E t \in TaskIds : TaskStep(t) /\ UNCHANGED restVars
  \/ ShutdownStep /\ UNCHANGED restVars

PagedSpec == PagedInit /\ [][PagedNext]_vars

\* ------------------------------------------------ repeated calls of the API
\* A caller that calls Start and Shutdown a second time.  Start has no guard:
\* every call does wg.Add(1) and starts a scheduler goroutine with a ticker
\* of its own; every Shutdown call cancels, makes its own done channel and
\* waiter, and selects on its own timer.
TickerFires2 == sched2.pc \notin {"none", "exited"} /\ now + 1 >= sched2.nextTick

\* tasks the second goroutine's passes already due can still spawn
Committed2 ==
  (IF sched2.pc = "admit" THEN Len(sched2.targets) - sched2.idx + 1 ELSE 0)
  + (IF sched2.pc = "scheduleChecks" THEN MaxList ELSE 0)
  + (IF tickPending2 THEN MaxList ELSE 0)

\* time passes for both tickers
ClockAdvanceBoth ==
  /\ started
  /\ now < MaxApiNow
  /\ (TickerFires \/ TickerFires2) =>
       Committed + Committed2
         + (IF TickerFires THEN MaxList ELSE 0)
         + (IF TickerFires2 THEN MaxList ELSE 0) <= MaxTasks
  /\ now' = now + 1
  /\ IF TickerFires
     THEN /\ tickPending' = TRUE
          /\ sched' = [sched EXCEPT !.nextTick = @ + CheckInterval]
     ELSE UNCHANGED <<tickPending, sched>>
  /\ IF TickerFires2
     THEN /\ tickPending2' = TRUE
          /\ sched2' = [sched2 EXCEPT !.nextTick = @ + CheckInterval]
     ELSE UNCHANGED <<tickPending2, sched2>>
  /\ UNCHANGED <<checkerVars, started, tasks, sd, sd2, storeVars, histVars>>

\* Checker.Start, called again: wg.Add(1); go c.scheduler()
StartAgain ==
  /\ started
  /\ sched2.pc = "none"
  /\ wg' = wg + 1
  /\ sched2' = [sched2 EXCEPT !.pc = "select", !.nextTick = now + CheckInterval]
  /\ UNCHANGED <<maxConcurrency, workers, hostSemaphores, ctxDone, started, sched,
                 tickPending, tasks, sd, now, storeVars, histVars, tickPending2, sd2>>

\* Checker.scheduler in the second goroutine, case <-c.ctx.Done()
scheduler2CtxDone ==
  /\ sched2.pc = "select"
  /\ ctxDone
  /\ sched2' = [sched2 EXCEPT !.pc = "exited"]
  /\ wg' = wg - 1
  /\ UNCHANGED <<maxConcurrency, workers, hostSemaphores, ctxDone, procVars, now,
                 storeVars, histVars, tickPending2, sd2>>

\* Checker.scheduler in the second goroutine, case <-ticker.C
scheduler2Tick ==
  /\ sched2.pc = "select"
  /\ tickPending2
  /\ tickPending2' = FALSE
  /\ sched2' = [sched2 EXCEPT !.pc = "scheduleChecks", !.targets = << >>, !.idx = 1]
  /\ passCount' = passCount + 1
  /\ UNCHANGED <<checkerVars, procVars, now, storeVars, storeFaults, sd2>>

\* Checker.scheduleChecks in the second goroutine, the GetTargets call
scheduleChecks2Fetch(storeOk) ==
  /\ sched2.pc = "scheduleChecks"
  /\ ctxDone => storeOk
  /\ StoreAnswers(storeOk)
  /\ IF ctxDone \/ ~storeOk
     THEN sched2' = [sched2 EXCEPT !.pc = "select"]
     ELSE LET got == GetTargets(targets, "", ZeroTime, "", ListLimit)
          IN  sched2' = AfterIteration(
                [sched2 EXCEPT !.pc = "admit", !.targets = got.targets, !.idx = 1])
  /\ UNCHANGED <<checkerVars, procVars, now, storeVars, passCount, tickPending2,
                 sd2>>

\* Checker.scheduleChecks in the second goroutine, case <-c.ctx.Done()
scheduleChecks2CtxDone ==
  /\ sched2.pc = "admit"
  /\ ctxDone
  /\ sched2' = [sched2 EXCEPT !.pc = "select"]
  /\ UNCHANGED <<checkerVars, procVars, now, storeVars, histVars, tickPending2,
                 sd2>>

\* Checker.scheduleChecks in the second goroutine, case c.workers <- struct{}{}
scheduleChecks2Admit ==
  /\ sched2.pc = "admit"
  /\ workersFree
  /\ workers' = workers + 1
  /\ wg' = wg + 1
  /\ tasks' = Append(tasks, NewTask(sched2.targets[sched2.idx], passCount))
  /\ sched2' = AfterIteration([sched2 EXCEPT !.idx = @ + 1])
  /\ UNCHANGED <<maxConcurrency, hostSemaphores, ctxDone, started, sched,
                 tickPending, sd, now, storeVars, histVars, tickPending2, sd2>>

\* Checker.Shutdown, called again after the first call began: c.cancel() on
\* the cancelled context, then its own waiter goroutine and timer
ShutdownAgain ==
  /\ sd.pc # "idle"
  /\ sd2.pc = "idle"
  /\ ctxDone' = TRUE
  /\ sd2' = [sd2 EXCEPT !.pc = "waiting"]
  /\ UNCHANGED <<maxConcurrency, workers, hostSemaphores, wg, procVars, now,
                 storeVars, histVars, sched2, tickPending2>>

\* the second Shutdown call, select case <-done
ShutdownAgainGraceful ==
  /\ sd2.pc = "waiting"
  /\ wg = 0
  /\ sd2' = [sd2 EXCEPT !.pc = "returned", !.outcome = "graceful"]
  /\ UNCHANGED <<checkerVars, procVars, now, storeVars, histVars, sched2,
                 tickPending2>>

\* a second Shutdown call that only waits for the WaitGroup
ShutdownAgainBlocks ==
  /\ sd2.pc = "waiting"
  /\ wg = 0
  /\ sd2' = [sd2 EXCEPT !.pc = "returned", !.outcome = "timeout"]
  /\ UNCHANGED <<checkerVars, procVars, now, storeVars, histVars, sched2,
                 tickPending2>>

\* the second Shutdown call, select case <-time.After(c.shutdownGrace)
ShutdownAgainTimedOut ==
  /\ sd2.pc = "waiting"
  /\ sd2' = [sd2 EXCEPT !.pc = "returned", !.outcome = "timeout"]
  /\ UNCHANGED <<checkerVars, procVars, now, storeVars, histVars, sched2,
                 tickPending2>>

Scheduler2Step ==
  \/ scheduler2CtxDone
  \/ scheduler2Tick
  \/ \E storeOk \in BOOLEAN : scheduleChecks2Fetch(storeOk)
  \/ scheduleChecks2CtxDone
  \/ scheduleChecks2Admit

ShutdownAgainStep ==
  \/ ShutdownAgain
  \/ ShutdownAgainGraceful
  \/ ShutdownAgainTimedOut

\* the callers' table holds one or two targets
ApiInit == Init /\ Len(targets) <= MaxApiTargets

\* a caller that calls Start twice and Shutdown once
StartTwiceNext ==
  \/ ClockAdvanceBoth /\ UNCHANGED <<svcVars, limVars>>
  \/ Start /\ UNCHANGED restVars
  \/ StartAgain /\ UNCHANGED <<svcVars, limVars>>
  \/ SchedulerStep /\ UNCHANGED restVars
  \/ Scheduler2Step /\ UNCHANGED <<svcVars, limVars>>
  \/ \E t \in TaskIds : TaskStep(t) /\ UNCHANGED restVars
  \/ ShutdownStep /\ UNCHANGED restVars

\* on a table with a single target
StartTwiceInit == Init /\ Len(targets) = 1

StartTwiceSpec == StartTwiceInit /\ [][StartTwiceNext]_vars

\* a caller that calls Start once and Shutdown twice
ShutdownTwiceNext ==
  \/ Next
  \/ ShutdownAgainStep /\ UNCHANGED <<svcVars, limVars>>

\* the timers of both Shutdown calls fire
ShutdownTwiceSpec ==
  /\ ApiInit
  /\ [][ShutdownTwiceNext]_vars
  /\ WF_vars(ShutdownTimedOut /\ UNCHANGED restVars)
  /\ WF_vars(ShutdownAgainTimedOut /\ UNCHANGED <<svcVars, limVars>>)

\* ------------------------------------------------------- the store, called
\* The store behind a Checker that is constructed and never started: the
\* specifications below call the store, the HTTP handlers and the pure
\* functions directly.
idleVars == <<checkerVars, procVars, histVars, apiVars, limVars>>

IdleInit ==
  /\ maxConcurrency = 1
  /\ workers = 0
  /\ hostSemaphores = [h \in {} |-> 0]
  /\ ctxDone = FALSE
  /\ wg = 0
  /\ started = FALSE
  /\ sched = [pc |-> "none", nextTick |-> 0, targets |-> << >>, idx |-> 1]
  /\ tickPending = FALSE
  /\ tasks = << >>
  /\ sd = [pc |-> "idle", outcome |-> "none"]
  /\ passCount = 0
  /\ storeFaults = 0
  /\ sched2 = [pc |-> "none", nextTick |-> 0, targets |-> << >>, idx |-> 1]
  /\ tickPending2 = FALSE
  /\ sd2 = [pc |-> "idle", outcome |-> "none"]
  /\ hostMutex = [writer |-> {}, readers |-> {}]
  /\ semOf = [h \in {} |-> 0]
  /\ chans = << >>
  /\ callers = << >>

\* the sequences that list every element of S once
Orderings(S) ==
  {s \in [1..Cardinality(S) -> S] : \A i, j \in DOMAIN s : i # j => s[i] # s[j]}

\* SQLiteStore.GetResults on a table: WHERE target_id = ? AND checked_at >= ?
\* ORDER BY checked_at DESC LIMIT ?, with since bound as formatTime(since) and
\* each row scanned back with parseTime.  Rows with equal checked_at come in
\* an order SQL leaves open: the set of sequences the query can return.
GetResults(table, targetID, since, limit) ==
  LET ts == formatTime(since)
      matching == {i \in 1..Len(table) :
                     /\ table[i].target_id = targetID
                     /\ table[i].checked_at >= ts}
      sorted == {s \in Orderings(matching) :
                   \A i, j \in DOMAIN s :
                     i < j => table[s[i]].checked_at >= table[s[j]].checked_at}
  IN  {[k \in 1..Len(Take(s, limit)) |->
          [ID |-> s[k], TargetID |-> table[s[k]].target_id,
           CheckedAt |-> parseTime(table[s[k]].checked_at),
           StatusCode |-> table[s[k]].status_code,
           LatencyMs |-> table[s[k]].latency_ms,
           Error |-> table[s[k]].error]] : s \in sorted}

\* SQLiteStore.InsertCheckResult called by a writer: the row is appended
storeInsertCheckResult(r) ==
  /\ Len(check_results) < MaxResults
  /\ check_results' = Append(check_results, ResultRow(r))
  /\ call' = [op |-> "InsertCheckResult", result |-> r]
  /\ UNCHANGED <<idleVars, now, targets, idempotency_keys, reqs, pager>>

\* a caller's GetResults(ctx, targetID, since, limit)
callGetResults(targetID, since, limit) ==
  /\ \E ret \in GetResults(check_results, targetID, since, limit) :
       call' = [op |-> "GetResults", targetID |-> targetID, since |-> since,
                limit |-> limit, ret |-> ret]
  /\ UNCHANGED <<idleVars, now, storeVars, idempotency_keys, reqs, pager>>

\* results written by parallel probe tasks complete in any order: the
\* checked_at of a row is unrelated to its place in the table
WrittenResults ==
  [TargetID : {1, 2}, CheckedAt : 0..MaxNow, LatencyMs : {0},
   StatusCode : {{200}}, Error : {NULL}]

ResultsInit ==
  /\ IdleInit
  /\ now = 0
  /\ targets = InitialRows(<<"a/1", "b/1">>)
  /\ check_results = << >>
  /\ idempotency_keys = << >>
  /\ reqs = << >>
  /\ call = [op |-> "none"]
  /\ pager = [pc |-> "idle"]

ResultsNext ==
  \/ \E r \in WrittenResults : storeInsertCheckResult(r)
  \/ \E id \in {1, 2}, since \in {ZeroTime} \cup 0..MaxNow, limit \in 1..MaxResults :
       callGetResults(id, since, limit)

ResultsSpec == ResultsInit /\ [][ResultsNext]_vars

\* ------------------------------------------------------- paging the targets
\* generateID: "t_" + uuid.NewString(), any id not in use
NewIDs(table) == (1..MaxIDs) \ {r.id : r \in Rows(table)}

\* SQLiteStore.UpsertTargetByURL as one caller runs it: the row with that
\* url if there is one, else a new row with a fresh id and created_at =
\* formatTime(time.Now()); the target returned carries time.Now() itself
callUpsertTargetByURL(canonicalURL, host, id) ==
  /\ LET found == {r \in Rows(targets) : r.url = canonicalURL}
     IN  IF found # {}
         THEN /\ call' = [op |-> "UpsertTargetByURL", created |-> FALSE,
                          target |-> [ID |-> TheOne(found).id,
                                      URL |-> TheOne(found).url,
                                      Host |-> TheOne(found).host,
                                      CreatedAt |-> parseTime(TheOne(found).created_at)]]
              /\ UNCHANGED targets
         ELSE /\ Len(targets) < MaxRows
              /\ id \in NewIDs(targets)
              /\ targets' = Append(targets,
                              [id |-> id, url |-> canonicalURL, host |-> host,
                               created_at |-> formatTime(now)])
              /\ call' = [op |-> "UpsertTargetByURL", created |-> TRUE,
                          target |-> [ID |-> id, URL |-> canonicalURL,
                                      Host |-> host, CreatedAt |-> now]]
  /\ UNCHANGED <<idleVars, now, check_results, idempotency_keys, reqs, pager>>

\* time passes between two calls
StoreClockAdvance ==
  /\ now < MaxNow
  /\ now' = now + 1
  /\ UNCHANGED <<idleVars, storeVars, svcVars>>

\* ids of the rows a listing with this host filter is about
Listed(table, hostFilter) ==
  {r.id : r \in {x \in Rows(table) : hostFilter # "" => x.host = hostFilter}}

\* the client's state after a page: the traversal ends on a nil cursor
AfterPage(hostFilter, limit, after, got, visited) ==
  [pc |-> IF got.cursor = NULL THEN "done" ELSE "paging",
   host |-> hostFilter, limit |-> limit, after |-> after, page |-> got.targets,
   cursor |-> got.cursor,
   visited |-> visited \o [i \in 1..Len(got.targets) |-> got.targets[i].ID],
   listed |-> Listed(targets, hostFilter)]

\* the first page: GetTargets(ctx, host, time.Time{}, "", limit)
pagerFirst(hostFilter, limit) ==
  /\ pager.pc = "idle"
  /\ pager' = AfterPage(hostFilter, limit, NULL,
                        GetTargets(targets, hostFilter, ZeroTime, "", limit), << >>)
  /\ UNCHANGED <<idleVars, now, storeVars, idempotency_keys, reqs, call>>

\* the next page: GetTargets(ctx, host, cursor.CreatedAt, cursor.ID, limit)
pagerNext ==
  /\ pager.pc = "paging"
  /\ LET c == TheOne(pager.cursor)
     IN  pager' = AfterPage(pager.host, pager.limit, pager.cursor,
                            GetTargets(targets, pager.host, c.CreatedAt, c.ID,
                                       pager.limit),
                            pager.visited)
  /\ UNCHANGED <<idleVars, now, storeVars, idempotency_keys, reqs, call>>

PagingInit ==
  /\ IdleInit
  /\ now = 0
  /\ targets = << >>
  /\ check_results = << >>
  /\ idempotency_keys = << >>
  /\ reqs = << >>
  /\ call = [op |-> "none"]
  /\ pager = [pc |-> "idle"]

\* targets are registered at any time, before and between the page fetches
PagingNext ==
  \/ StoreClockAdvance
  \/ \E url \in {"a/1", "a/2", "b/1"}, id \in 1..MaxIDs :
       callUpsertTargetByURL(url, Host(url), id)
  \/ \E hostFilter \in {"", "a"}, limit \in 1..2 : pagerFirst(hostFilter, limit)
  \/ pagerNext

PagingSpec == PagingInit /\ [][PagingNext]_vars

\* ------------------------------------------------------------ Canonicalize
\* A raw URL is given by the parts its text is made of:
\* scheme "://" host [":" port] path ["?" query] ["#" fragment].  A path is
\* the sequence of its pieces, the slashes included; a query is the
\* sequence of its k=v segments, separated by "&", as written (escaped).
RawSchemes == {"http", "https", "HTTPS", "ftp"}
RawHosts == {"example.com", "EXAMPLE.com"}
RawPorts == {"", "80", "443", "8080"}
RawPaths == {<< >>, <<"/">>, <<"/", "p">>, <<"/", "p", "/">>}
RawValues == {"1", "x%26y"}
RawSegments == [k : {"a", "b"}, v : RawValues]
RawQueries ==
  {<< >>} \cup {<<s>> : s \in RawSegments}
          \cup {<<s1, s2>> : s1 \in RawSegments, s2 \in RawSegments}
RawFragments == {"", "top"}
RawURLs ==
  [scheme : RawSchemes, host : RawHosts, port : RawPorts, path : RawPaths,
   query : RawQueries, fragment : RawFragments]

\* strings.ToLower
ToLower(s) ==
  CASE s = "HTTPS" -> "https"
    [] s = "EXAMPLE.com" -> "example.com"
    [] OTHER -> s

\* url.QueryUnescape: %26 is "&"
QueryUnescape(s) == IF s = "x%26y" THEN "x&y" ELSE s

\* sort.Strings on the keys that occur
KeyRank(k) == CASE k = "a" -> 1 [] k = "b" -> 2 [] OTHER -> 3

\* url.Parse: the scheme comes out lowercased, the rest as written
urlParse(raw) ==
  [Scheme |-> ToLower(raw.scheme), Host |-> [name |-> raw.host, port |-> raw.port],
   Path |-> raw.path, RawQuery |-> raw.query, Fragment |-> raw.fragment]

\* url.ParseQuery: the pairs in order, keys and values unescaped
ParseQuery(query) ==
  [i \in DOMAIN query |-> [k |-> QueryUnescape(query[i].k),
                           v |-> QueryUnescape(query[i].v)]]

\* the text fmt.Sprintf("%s=%s", k, v) as the segments a reader of the
\* query finds in it: an "&" inside v starts a new segment
Sprintf(k, v) ==
  IF v = "x&y" THEN <<[k |-> k, v |-> "x"], [k |-> "y", v |-> ""]>>
  ELSE <<[k |-> k, v |-> v]>>

RECURSIVE Join(_)
Join(pairs) ==
  IF pairs = << >> THEN << >> ELSE Head(pairs) \o Join(Tail(pairs))

\* sortQueryParams: the pairs by ascending key, the values of a key in the
\* order they were written
sortQueryParams(rawQuery) ==
  LET values == ParseQuery(rawQuery)
      n == Len(values)
      before(i, j) == \/ KeyRank(values[i].k) < KeyRank(values[j].k)
                      \/ KeyRank(values[i].k) = KeyRank(values[j].k) /\ i < j
      at(p) == CHOOSE i \in 1..n :
                 Cardinality({j \in 1..n : before(j, i)}) = p - 1
  IN  Join([p \in 1..n |-> Sprintf(values[at(p)].k, values[at(p)].v)])

\* normalizePath
normalizePath(path) ==
  IF path = << >> \/ path = <<"/">> THEN << >>
  ELSE IF path[Len(path)] = "/" THEN SubSeq(path, 1, Len(path) - 1)
  ELSE path

\* Canonicalize: the parts of the canonical URL text, the host, the error
Canonicalize(raw) ==
  LET parsed == urlParse(raw)
      scheme == ToLower(parsed.Scheme)
      name == ToLower(parsed.Host.name)
      port == IF \/ scheme = "http" /\ parsed.Host.port = "80"
                 \/ scheme = "https" /\ parsed.Host.port = "443"
              THEN "" ELSE parsed.Host.port
      query == IF parsed.RawQuery # << >> THEN sortQueryParams(parsed.RawQuery)
               ELSE << >>
  IN  IF parsed.Scheme # "http" /\ parsed.Scheme # "https"
      THEN [url |-> NULL, host |-> NULL, err |-> "unsupported scheme"]
      ELSE [url |-> {[scheme |-> scheme, host |-> name, port |-> port,
                      path |-> normalizePath(parsed.Path), query |-> query,
                      fragment |-> ""]},
            host |-> {[name |-> name, port |-> port]},
            err |-> Nil]

\* a caller's model.Canonicalize(raw)
callCanonicalize ==
  /\ call.op = "raw"
  /\ call' = [op |-> "Canonicalize", raw |-> call.raw, ret |-> Canonicalize(call.raw)]
  /\ UNCHANGED <<idleVars, now, storeVars, idempotency_keys, reqs, pager>>

CanonInit ==
  /\ IdleInit
  /\ now = 0
  /\ targets = << >>
  /\ check_results = << >>
  /\ idempotency_keys = << >>
  /\ reqs = << >>
  /\ \E raw \in RawURLs : call = [op |-> "raw", raw |-> raw]
  /\ pager = [pc |-> "idle"]

CanonSpec == CanonInit /\ [][callCanonicalize]_vars

\* ------------------------------------------------------------- config.Load
defaultCheckInterval == 15     \* 15 * time.Second
defaultMaxConcurrency == 8
defaultHTTPTimeout == 5        \* 5 * time.Second
defaultShutdownGrace == 10     \* 10 * time.Second

EnvKeys == {"CHECK_INTERVAL", "MAX_CONCURRENCY", "HTTP_TIMEOUT", "SHUTDOWN_GRACE"}

\* what a variable of the environment can hold; NULL is a variable not set
EnvValues == {"", "30s", "1m", "-1s", "4", "0", "abc"}
Environments == [EnvKeys -> {NULL} \cup {{v} : v \in EnvValues}]

\* os.Getenv: the value, "" when the variable is not set
Getenv(env, key) == IF env[key] = NULL THEN "" ELSE TheOne(env[key])

\* time.ParseDuration, in seconds: a sign, then numbers with their units;
\* "0" alone is the zero duration, any other number without a unit is an
\* error
ParseDuration(v) ==
  CASE v = "30s" -> [d |-> 30, err |-> Nil]
    [] v = "1m"  -> [d |-> 60, err |-> Nil]
    [] v = "-1s" -> [d |-> 0 - 1, err |-> Nil]
    [] v = "0"   -> [d |-> 0, err |-> Nil]
    [] OTHER     -> [d |-> 0, err |-> "invalid duration"]

\* strconv.Atoi
Atoi(v) ==
  CASE v = "4" -> [i |-> 4, err |-> Nil]
    [] v = "0" -> [i |-> 0, err |-> Nil]
    [] OTHER   -> [i |-> 0, err |-> "invalid syntax"]

\* a getEnvDuration that falls back to the default on a value it cannot parse
getEnvDurationLenient(env, key, fallback) ==
  LET v == Getenv(env, key)
  IN  IF v # "" /\ ParseDuration(v).err = Nil
      THEN [val |-> ParseDuration(v).d, err |-> Nil]
      ELSE [val |-> fallback, err |-> Nil]

\* getEnvDuration
getEnvDuration(env, key, fallback) ==
  LET v == Getenv(env, key)
  IN  IF v # ""
      THEN [val |-> ParseDuration(v).d, err |-> ParseDuration(v).err]
      ELSE [val |-> fallback, err |-> Nil]

\* getEnvInt
getEnvInt(env, key, fallback) ==
  LET v == Getenv(env, key)
  IN  IF v # ""
      THEN IF Atoi(v).err # Nil \/ Atoi(v).i <= 0
           THEN [val |-> 0, err |-> "must be positive integer"]
           ELSE [val |-> Atoi(v).i, err |-> Nil]
      ELSE [val |-> fallback, err |-> Nil]

\* config.Load: the variables are read in this order and the first error
\* ends the call with a nil Config
Load(env) ==
  LET ci == getEnvDuration(env, "CHECK_INTERVAL", defaultCheckInterval)
      mc == getEnvInt(env, "MAX_CONCURRENCY", defaultMaxConcurrency)
      ht == getEnvDuration(env, "HTTP_TIMEOUT", defaultHTTPTimeout)
      sg == getEnvDuration(env, "SHUTDOWN_GRACE", defaultShutdownGrace)
  IN  IF ci.err # Nil THEN [cfg |-> NULL, err |-> "invalid CHECK_INTERVAL"]
      ELSE IF mc.err # Nil THEN [cfg |-> NULL, err |-> "invalid MAX_CONCURRENCY"]
      ELSE IF ht.err # Nil THEN [cfg |-> NULL, err |-> "invalid HTTP_TIMEOUT"]
      ELSE IF sg.err # Nil THEN [cfg |-> NULL, err |-> "invalid SHUTDOWN_GRACE"]
      ELSE [cfg |-> {[CheckInterval |-> ci.val, MaxConcurrency |-> mc.val,
                      HTTPTimeout |-> ht.val, ShutdownGrace |-> sg.val]},
            err |-> Nil]

\* main's config.Load()
callLoad ==
  /\ call.op = "env"
  /\ call' = [op |-> "Load", env |-> call.env, ret |-> Load(call.env)]
  /\ UNCHANGED <<idleVars, now, storeVars, idempotency_keys, reqs, pager>>

ConfigInit ==
  /\ IdleInit
  /\ now = 0
  /\ targets = << >>
  /\ check_results = << >>
  /\ idempotency_keys = << >>
  /\ reqs = << >>
  /\ \E env \in Environments : call = [op |-> "env", env |-> env]
  /\ pager = [pc |-> "idle"]

ConfigSpec == ConfigInit /\ [][callLoad]_vars

\* ---------------------------------------------------- idempotency-key store
\* json.Marshal of a Target: the JSON text, given by the object it denotes;
\* created_at is the time in RFC3339Nano, which keeps the fraction
MarshalJSON(v) ==
  <<"json", [id |-> v.ID, url |-> v.URL, host |-> v.Host,
             created_at |-> <<"RFC3339Nano", v.CreatedAt>>]>>

\* json.Unmarshal into an interface{}: the object as a map
UnmarshalJSON(text) == text[2]

\* SELECT response_code, response_body FROM idempotency_keys WHERE key = ?
SelectIdempotency(table, key) == {r \in Rows(table) : r.key = key}

\* the IdempotencyResponse scanned from a row
StoredResponse(row) ==
  [ResponseCode |-> row.response_code,
   ResponseBody |-> UnmarshalJSON(row.response_body)]

\* the row qInsertIdempotency writes
IdempotencyRow(key, requestHash, targetID, responseCode, responseBody) ==
  [key |-> key, request_hash |-> requestHash, target_id |-> targetID,
   response_code |-> responseCode, response_body |-> MarshalJSON(responseBody)]

\* number of direct calls made so far
Calls == IF call.op = "none" THEN 0 ELSE call.n

\* an UpsertIdempotencyKey that writes the new response over the stored one
callUpsertIdempotencyKeyOverwrites(key, requestHash, targetID, responseCode, responseBody) ==
  /\ Calls < MaxCalls
  /\ LET found == SelectIdempotency(idempotency_keys, key)
         row == IdempotencyRow(key, requestHash, targetID, responseCode, responseBody)
     IN  /\ idempotency_keys' =
              IF found = {} THEN Append(idempotency_keys, row)
              ELSE [i \in DOMAIN idempotency_keys |->
                      IF idempotency_keys[i].key = key THEN row
                      ELSE idempotency_keys[i]]
         /\ call' = [op |-> "UpsertIdempotencyKey", n |-> Calls + 1, key |-> key,
                     responseCode |-> responseCode, responseBody |-> responseBody,
                     created |-> found = {},
                     resp |-> {[ResponseCode |-> responseCode,
                                ResponseBody |-> responseBody]}]
  /\ UNCHANGED <<idleVars, now, storeVars, reqs, pager>>

\* SQLiteStore.UpsertIdempotencyKey as one caller runs it
callUpsertIdempotencyKey(key, requestHash, targetID, responseCode, responseBody) ==
  /\ Calls < MaxCalls
  /\ LET found == SelectIdempotency(idempotency_keys, key)
     IN  IF found # {}
         THEN /\ call' = [op |-> "UpsertIdempotencyKey", n |-> Calls + 1,
                          key |-> key, responseCode |-> responseCode,
                          responseBody |-> responseBody, created |-> FALSE,
                          resp |-> {StoredResponse(TheOne(found))}]
              /\ UNCHANGED idempotency_keys
         ELSE /\ idempotency_keys' =
                   Append(idempotency_keys,
                          IdempotencyRow(key, requestHash, targetID, responseCode,
                                         responseBody))
              /\ call' = [op |-> "UpsertIdempotencyKey", n |-> Calls + 1,
                          key |-> key, responseCode |-> responseCode,
                          responseBody |-> responseBody, created |-> TRUE,
                          resp |-> {[ResponseCode |-> responseCode,
                                     ResponseBody |-> responseBody]}]
  /\ UNCHANGED <<idleVars, now, storeVars, reqs, pager>>

\* SQLiteStore.GetIdempotencyKey
callGetIdempotencyKey(key) ==
  /\ Calls < MaxCalls
  /\ LET found == SelectIdempotency(idempotency_keys, key)
     IN  call' = [op |-> "GetIdempotencyKey", n |-> Calls + 1, key |-> key,
                  found |-> found # {},
                  resp |-> IF found = {} THEN NULL
                           ELSE {StoredResponse(TheOne(found))}]
  /\ UNCHANGED <<idleVars, now, storeVars, idempotency_keys, reqs, pager>>

IdempotencyKeys == {"k1", "k2"}
ResponseCodes == {200, 201}
ResponseBodies ==
  {[ID |-> 1, URL |-> "a/1", Host |-> "a", CreatedAt |-> 1],
   [ID |-> 2, URL |-> "b/1", Host |-> "b", CreatedAt |-> 2]}

KeysInit ==
  /\ IdleInit
  /\ now = 0
  /\ targets = << >>
  /\ check_results = << >>
  /\ idempotency_keys = << >>
  /\ reqs = << >>
  /\ call = [op |-> "none"]
  /\ pager = [pc |-> "idle"]

KeysNext ==
  \/ \E key \in IdempotencyKeys, code \in ResponseCodes, body \in ResponseBodies :
       callUpsertIdempotencyKey(key, "hash", body.ID, code, body)
  \/ \E key \in IdempotencyKeys : callGetIdempotencyKey(key)

KeysSpec == KeysInit /\ [][KeysNext]_vars

\* ------------------------------------------------------- POST /v1/targets
\* the URLs clients register: two spellings of one URL, another URL, and
\* one of a scheme that is not served
PlainURL == [scheme |-> "https", host |-> "example.com", port |-> "",
             path |-> << >>, query |-> << >>, fragment |-> ""]
RegisteredURLs ==
  {PlainURL,
   [PlainURL EXCEPT !.scheme = "HTTPS", !.host = "EXAMPLE.com", !.path = <<"/">>],
   [PlainURL EXCEPT !.path = <<"/", "p">>],
   [PlainURL EXCEPT !.scheme = "ftp"]}

\* request bodies, decoded: {"url": ...}
RequestBodies == [url : RegisteredURLs]

\* values of the Idempotency-Key header; "" is a request without the header
HeaderKeys == {"", "k1"}

ReqIds == 1..Len(reqs)
Responded == {i \in ReqIds : reqs[i].pc = "responded"}

\* the JSON object a client reads from writeJSON(w, status, target)
JSONOf(target) == UnmarshalJSON(MarshalJSON(target))

ErrorBody(msg) == [error |-> msg]

\* writeJSON / writeError: the handler returns
Respond(r, status, response) ==
  [r EXCEPT !.pc = "responded", !.status = status, !.response = {response}]

\* createRequestHash
createRequestHash(requestURL) == <<"sha256", requestURL>>

\* createTarget up to its first store call: the URL of the decoded body is
\* canonicalized (400 on an error), the Idempotency-Key header read
createTargetBegin(body, key) ==
  /\ Len(reqs) < MaxReqs
  /\ Cardinality(ReqIds \ Responded) < MaxInFlight
  /\ LET c == Canonicalize(body.url)
         bad == c.err # Nil
         canonicalURL == IF bad THEN NULL ELSE c.url
         req == [body |-> body, key |-> key, before |-> Responded,
                 canonicalURL |-> canonicalURL,
                 host |-> IF bad THEN NULL ELSE c.host,
                 fresh |-> /\ ~bad
                           /\ \A r \in Rows(targets) : {r.url} # canonicalURL
                           /\ SelectIdempotency(idempotency_keys, key) = {},
                 target |-> NULL, created |-> FALSE,
                 pc |-> IF bad THEN "responded"
                        ELSE IF key # "" THEN "checkIdempotencyKey"
                        ELSE "selectTarget",
                 status |-> IF bad THEN 400 ELSE 0,
                 response |-> IF bad THEN {ErrorBody("bad request")} ELSE NULL]
     IN  reqs' = Append(reqs, req)
  /\ UNCHANGED <<checkerVars, procVars, histVars, apiVars, limVars, now, storeVars,
                 idempotency_keys, call, pager>>

\* a handler that replays the cached response with the status stored with it
checkIdempotencyKeyReplaysCode(i, storeOk) ==
  /\ reqs[i].pc = "checkIdempotencyKey"
  /\ StoreAnswers(storeOk)
  /\ LET found == SelectIdempotency(idempotency_keys, reqs[i].key)
     IN  reqs' = [reqs EXCEPT ![i] =
           IF ~storeOk
           THEN Respond(@, 500, ErrorBody("idempotency check failed"))
           ELSE IF found # {}
           THEN Respond(@, StoredResponse(TheOne(found)).ResponseCode,
                        StoredResponse(TheOne(found)).ResponseBody)
           ELSE [@ EXCEPT !.pc = "selectTarget"]]
  /\ UNCHANGED <<checkerVars, procVars, passCount, apiVars, limVars, now, storeVars,
                 idempotency_keys, call, pager>>

\* a handler that compares the stored request hash and refuses a key that
\* was stored for another URL
checkIdempotencyKeyComparesHash(i, storeOk) ==
  /\ reqs[i].pc = "checkIdempotencyKey"
  /\ StoreAnswers(storeOk)
  /\ LET found == SelectIdempotency(idempotency_keys, reqs[i].key)
     IN  reqs' = [reqs EXCEPT ![i] =
           IF ~storeOk
           THEN Respond(@, 500, ErrorBody("idempotency check failed"))
           ELSE IF found = {} THEN [@ EXCEPT !.pc = "selectTarget"]
           ELSE IF TheOne(found).request_hash # createRequestHash(@.body.url)
           THEN Respond(@, 422, ErrorBody("idempotency key reused"))
           ELSE Respond(@, 200, StoredResponse(TheOne(found)).ResponseBody)]
  /\ UNCHANGED <<checkerVars, procVars, passCount, apiVars, limVars, now, storeVars,
                 idempotency_keys, call, pager>>

\* createTarget, s.checkIdempotencyKey (GetIdempotencyKey): 500 on an
\* error, the cached body with 200 when the key is stored
checkIdempotencyKey(i, storeOk) ==
  /\ reqs[i].pc = "checkIdempotencyKey"
  /\ StoreAnswers(storeOk)
  /\ LET found == SelectIdempotency(idempotency_keys, reqs[i].key)
     IN  reqs' = [reqs EXCEPT ![i] =
           IF ~storeOk
           THEN Respond(@, 500, ErrorBody("idempotency check failed"))
           ELSE IF found # {}
           THEN Respond(@, 200, StoredResponse(TheOne(found)).ResponseBody)
           ELSE [@ EXCEPT !.pc = "selectTarget"]]
  /\ UNCHANGED <<checkerVars, procVars, passCount, apiVars, limVars, now, storeVars,
                 idempotency_keys, call, pager>>

\* createTarget after UpsertTargetByURL returned a target: 201 if created,
\* else 200; with a key the result is stored before the response is written
AfterUpsert(r, target, created) ==
  LET status == IF created THEN 201 ELSE 200
      got == [r EXCEPT !.target = {target}, !.created = created, !.status = status]
  IN  IF r.key # "" THEN [got EXCEPT !.pc = "storeIdempotencyResult"]
      ELSE Respond(got, status, JSONOf(target))

\* UpsertTargetByURL, the SELECT by url: the stored target with
\* parseTime(created_at), or on to the INSERT
selectTarget(i, storeOk) ==
  /\ reqs[i].pc = "selectTarget"
  /\ StoreAnswers(storeOk)
  /\ LET found == {r \in Rows(targets) : {r.url} = reqs[i].canonicalURL}
         row == TheOne(found)
     IN  reqs' = [reqs EXCEPT ![i] =
           IF ~storeOk THEN Respond(@, 500, ErrorBody("database error"))
           ELSE IF found # {}
           THEN AfterUpsert(@, [ID |-> row.id, URL |-> row.url, Host |-> row.host,
                                CreatedAt |-> parseTime(row.created_at)], FALSE)
           ELSE [@ EXCEPT !.pc = "insertTarget"]]
  /\ UNCHANGED <<checkerVars, procVars, passCount, apiVars, limVars, now, storeVars,
                 idempotency_keys, call, pager>>

\* an INSERT into a table whose url column is not UNIQUE
insertTargetNoUnique(i, storeOk, id) ==
  /\ reqs[i].pc = "insertTarget"
  /\ id \in NewIDs(targets)
  /\ StoreAnswers(storeOk)
  /\ LET url == TheOne(reqs[i].canonicalURL)
         host == TheOne(reqs[i].host)
         t == [ID |-> id, URL |-> url, Host |-> host, CreatedAt |-> now]
     IN  IF ~storeOk
         THEN /\ reqs' = [reqs EXCEPT ![i] =
                            Respond(@, 500, ErrorBody("database error"))]
              /\ UNCHANGED targets
         ELSE /\ targets' = Append(targets,
                              [id |-> id, url |-> url, host |-> host,
                               created_at |-> formatTime(t.CreatedAt)])
              /\ reqs' = [reqs EXCEPT ![i] = AfterUpsert(@, t, TRUE)]
  /\ UNCHANGED <<checkerVars, procVars, passCount, apiVars, limVars, now, check_results,
                 idempotency_keys, call, pager>>

\* UpsertTargetByURL, the INSERT: a fresh id, CreatedAt = time.Now(), the
\* row written with formatTime(CreatedAt); the url is UNIQUE, so the INSERT
\* fails when another request has inserted it meanwhile
insertTarget(i, storeOk, id) ==
  /\ reqs[i].pc = "insertTarget"
  /\ id \in NewIDs(targets)
  /\ StoreAnswers(storeOk)
  /\ LET url == TheOne(reqs[i].canonicalURL)
         host == TheOne(reqs[i].host)
         taken == \E r \in Rows(targets) : r.url = url
         t == [ID |-> id, URL |-> url, Host |-> host, CreatedAt |-> now]
     IN  IF ~storeOk \/ taken
         THEN /\ reqs' = [reqs EXCEPT ![i] =
                            Respond(@, 500, ErrorBody("database error"))]
              /\ UNCHANGED targets
         ELSE /\ targets' = Append(targets,
                              [id |-> id, url |-> url, host |-> host,
                               created_at |-> formatTime(t.CreatedAt)])
              /\ reqs' = [reqs EXCEPT ![i] = AfterUpsert(@, t, TRUE)]
  /\ UNCHANGED <<checkerVars, procVars, passCount, apiVars, limVars, now, check_results,
                 idempotency_keys, call, pager>>

\* s.storeIdempotencyResult, UpsertIdempotencyKey's SELECT: an error is
\* only printed; when the key is stored nothing is written
storeIdempotencyResult(i, storeOk) ==
  /\ reqs[i].pc = "storeIdempotencyResult"
  /\ StoreAnswers(storeOk)
  /\ LET found == SelectIdempotency(idempotency_keys, reqs[i].key)
     IN  reqs' = [reqs EXCEPT ![i] =
           IF ~storeOk \/ found # {}
           THEN Respond(@, @.status, JSONOf(TheOne(@.target)))
           ELSE [@ EXCEPT !.pc = "insertIdempotency"]]
  /\ UNCHANGED <<checkerVars, procVars, passCount, apiVars, limVars, now, storeVars,
                 idempotency_keys, call, pager>>

\* s.storeIdempotencyResult, UpsertIdempotencyKey's INSERT (key is the
\* PRIMARY KEY); then writeJSON(w, status, target)
insertIdempotency(i, storeOk) ==
  /\ reqs[i].pc = "insertIdempotency"
  /\ StoreAnswers(storeOk)
  /\ LET r == reqs[i]
         taken == SelectIdempotency(idempotency_keys, r.key) # {}
     IN  /\ idempotency_keys' =
              IF ~storeOk \/ taken THEN idempotency_keys
              ELSE Append(idempotency_keys,
                          IdempotencyRow(r.key, createRequestHash(r.body.url),
                                         TheOne(r.target).ID, r.status,
                                         TheOne(r.target)))
         /\ reqs' = [reqs EXCEPT ![i] = Respond(@, @.status, JSONOf(TheOne(@.target)))]
  /\ UNCHANGED <<checkerVars, procVars, passCount, apiVars, limVars, now, storeVars,
                 call, pager>>

RegisterInit ==
  /\ IdleInit
  /\ now = 0
  /\ targets = << >>
  /\ check_results = << >>
  /\ idempotency_keys = << >>
  /\ reqs = << >>
  /\ call = [op |-> "none"]
  /\ pager = [pc |-> "idle"]

\* the server runs a goroutine per request: the handlers interleave at
\* their store calls
RegisterNext ==
  \/ now < MaxApiNow /\ StoreClockAdvance
  \/ \E body \in RequestBodies, key \in HeaderKeys : createTargetBegin(body, key)
  \/ \E i \in ReqIds, storeOk \in BOOLEAN : checkIdempotencyKey(i, storeOk)
  \/ \E i \in ReqIds, storeOk \in BOOLEAN : selectTarget(i, storeOk)
  \/ \E i \in ReqIds, storeOk \in BOOLEAN, id \in 1..MaxReqs - 1 :
       insertTarget(i, storeOk, id)
  \/ \E i \in ReqIds, storeOk \in BOOLEAN : storeIdempotencyResult(i, storeOk)
  \/ \E i \in ReqIds, storeOk \in BOOLEAN : insertIdempotency(i, storeOk)

RegisterSpec == RegisterInit /\ [][RegisterNext]_vars

\* ------------------------------------------------------------------ typing
TypeOK ==
  /\ maxConcurrency \in 1..MaxG
  /\ workers \in 0..maxConcurrency
  /\ DOMAIN hostSemaphores \subseteq Hosts
  /\ ctxDone \in BOOLEAN
  /\ wg \in Nat
  /\ now \in 0..MaxNow

\* ------------------------------------------------------------ derived sets
GlobalHolders == {t \in TaskIds : "global" \in tasks[t].slots}
HostHolders(h) == {t \in TaskIds : tasks[t].target.Host = h /\ "host" \in tasks[t].slots}
Probing == {t \in TaskIds : tasks[t].pc = "performCheck"}
SemCount(h) == IF h \in DOMAIN hostSemaphores THEN hostSemaphores[h] ELSE 0
ResultsOf(id) == {i \in 1..Len(check_results) : check_results[i].target_id = id}
TasksOf(pass, id) == {t \in TaskIds : tasks[t].pass = pass /\ tasks[t].target.ID = id}
SchedulerIdle == sched.pc \in {"select", "exited"}
AllTasksDone == \A t \in TaskIds : tasks[t].pc = "done"

\* ------------------------------------------------------------------ claims
\* C1: global cap.  In every reachable state the number of probe tasks
\* holding a global slot (admitted and not yet finished, waiting for a host
\* slot or probing) is at most the configured max concurrency, and the
\* tokens in the workers channel are exactly those holders.
C1_GlobalCap ==
  /\ Cardinality(GlobalHolders) <= maxConcurrency
  /\ workers = Cardinality(GlobalHolders)

\* the cap binds: the pass is blocked on a full global limiter while one of
\* the holders still waits for its host slot
C1_Witness ==
  /\ sched.pc = "admit"
  /\ Cardinality(GlobalHolders) = maxConcurrency
  /\ \E t \in GlobalHolders : tasks[t].pc = "acquireHostSemaphore"

\* C2: per-host cap.  In every reachable state and for every host, the
\* number of tasks holding that host's slot is at most HostCap, and the
\* tokens in the host's channel are exactly those holders.
C2_HostCap ==
  \A h \in Hosts :
    /\ Cardinality(HostHolders(h)) <= HostCap
    /\ SemCount(h) = Cardinality(HostHolders(h))

\* the host cap binds below a larger global cap: two tasks probe host a and
\* a third, already admitted, waits for the host slot
C2_Witness ==
  /\ maxConcurrency > HostCap
  /\ Cardinality(HostHolders("a")) = HostCap
  /\ \E t \in TaskIds : /\ tasks[t].pc = "acquireHostSemaphore"
                        /\ tasks[t].target.Host = "a"

\* C3: a task whose HTTP probe is in progress holds a global slot and the
\* slot of its target's host, with the tokens in both channels; no step
\* takes a slot away from a task that is still probing after the step.
C3_ProbeHoldsBothSlots ==
  \A t \in Probing :
    /\ tasks[t].slots = {"global", "host"}
    /\ workers >= 1
    /\ SemCount(tasks[t].target.Host) >= 1

\* probes in progress against two different hosts, cancellation signalled
C3_Witness ==
  /\ \E t1, t2 \in Probing : tasks[t1].target.Host # tasks[t2].target.Host
  /\ ctxDone

\* C4: every CheckResult of the probe executor has exactly one of
\* status_code / error: error iff the GET failed at transport level,
\* status_code (that of the response) iff a response was received; the rows
\* written to the store keep that.
C4_ExactlyOneOfStatusError ==
  /\ \A t \in TaskIds : \A r \in tasks[t].result :
       /\ (r.Error # NULL) <=> (tasks[t].got.err # Nil)
       /\ (r.StatusCode # NULL) <=> (tasks[t].got.resp # NULL)
       /\ (r.Error # NULL) <=> (r.StatusCode = NULL)
       /\ \A resp \in tasks[t].got.resp : r.StatusCode = {resp.StatusCode}
  /\ \A i \in 1..Len(check_results) :
       (check_results[i].error # NULL) <=> (check_results[i].status_code = NULL)

\* a transport failure and a 5xx response have both been recorded
C4_Witness ==
  /\ \E i \in 1..Len(check_results) : check_results[i].error # NULL
  /\ \E i \in 1..Len(check_results) : check_results[i].status_code = {503}

\* C5: with no shutdown and no failing store call, once the scheduler is
\* between passes and every task has finished, each pass has spawned exactly
\* one task per listed target and the store holds exactly one CheckResult
\* per target per pass, none for anything else; the Target rows are those
\* the process started with.
C5_OneResultPerTargetPerPass ==
  /\ \E l \in InitialURLLists : targets = InitialRows(l)
  /\ (SchedulerIdle /\ AllTasksDone /\ ~ctxDone /\ storeFaults = 0
        /\ Len(targets) <= ListLimit) =>
       /\ \A r \in Rows(targets) :
            /\ Cardinality(ResultsOf(r.id)) = passCount
            /\ \A p \in 1..passCount : Cardinality(TasksOf(p, r.id)) = 1
       /\ Len(check_results) = passCount * Len(targets)
       /\ Len(tasks) = passCount * Len(targets)

\* one pass over three targets has completed and written its three results
C5_Witness ==
  /\ SchedulerIdle /\ AllTasksDone /\ ~ctxDone /\ storeFaults = 0
  /\ passCount = 1
  /\ Len(targets) = 3
  /\ Len(check_results) = 3

\* C6: a pass never skips a listed target because the global limiter is
\* saturated.  While a pass is over its list, the only step that moves to the
\* next target admits the current one (spawns its task), and the pass ends
\* only after the last target was admitted or after cancellation was
\* signalled; under fair scheduling a pass over its list eventually ends or
\* cancellation is signalled.
C6_NeverSkipsOnSaturation ==
  /\ [][sched.pc = "admit" =>
         /\ sched'.targets = sched.targets
         /\ sched'.idx # sched.idx =>
              /\ sched'.idx = sched.idx + 1
              /\ Len(tasks') = Len(tasks) + 1
              /\ tasks'[Len(tasks')].target = sched.targets[sched.idx]
         /\ sched'.pc # "admit" =>
              \/ ctxDone
              \/ sched'.idx = Len(sched.targets) + 1]_vars
  /\ (sched.pc = "admit") ~> (sched.pc # "admit" \/ ctxDone)

\* with one global slot a pass over three targets, which had to wait for the
\* slot twice, has admitted all three without cancellation
C6_Witness ==
  /\ maxConcurrency = 1
  /\ ~ctxDone
  /\ passCount = 1
  /\ sched.pc = "select"
  /\ Len(targets) = 3
  /\ \A r \in Rows(targets) : Cardinality(TasksOf(1, r.id)) = 1

\* C7: after Shutdown has signalled cancellation the scheduler loop never
\* begins another scheduling pass: no step taken with the context cancelled
\* calls scheduleChecks, also when a tick is pending at that moment.
C7_NoPassAfterCancel ==
  [][ctxDone => /\ passCount' = passCount
                /\ sched'.pc = "scheduleChecks" => sched.pc = "scheduleChecks"]_vars

\* C8: after cancellation has been signalled a pass still in progress admits
\* no further target: no step taken with the context cancelled puts a token
\* into the global limiter or spawns a probe task, also when a slot is free.
C8_NoAdmissionAfterCancel ==
  [][ctxDone => /\ workers' <= workers
                /\ Len(tasks') = Len(tasks)]_vars

\* C9: after cancellation has been signalled no new HTTP GET starts (a task
\* still waiting for its host slot never goes on into performCheck), while a
\* GET already started is not interrupted: the task stays in its probe until
\* the probe itself completes with a result.
C9_NoNewGetAfterCancel ==
  [][ctxDone =>
       \A t \in TaskIds :
         /\ tasks[t].pc = "acquireHostSemaphore" => tasks'[t].pc # "performCheck"
         /\ tasks[t].pc = "performCheck" =>
              \/ tasks'[t].pc = "performCheck"
              \/ tasks'[t].pc = "releaseHost" /\ tasks'[t].result # NULL]_vars

\* C10: a probe that was in flight when Shutdown was called and completes
\* while Shutdown is still waiting (the grace period has not elapsed) has its
\* result persisted: unless the store itself fails the call, the step that
\* completes the probe appends the result's row to check_results.
C10_InFlightResultsPersisted ==
  [][\A t \in TaskIds :
       (/\ tasks[t].atCancel
        /\ sd.pc = "waiting"
        /\ tasks[t].pc = "performCheck"
        /\ tasks'[t].pc = "releaseHost"
        /\ storeFaults' = storeFaults) =>
         /\ Len(check_results') = Len(check_results) + 1
         /\ \A r \in tasks'[t].result :
              check_results'[Len(check_results')] = ResultRow(r)]_vars

\* C11: Shutdown always returns.  Once Shutdown waits, it eventually returns
\* also when a probe stays in flight for ever (the grace timer ends the
\* wait), and a return while the WaitGroup is not at zero (something is
\* still outstanding) reports the timed-out outcome, never the clean one.
C11_ShutdownReturnsAfterGrace ==
  /\ [][(sd.pc = "waiting" /\ sd'.pc = "returned" /\ wg > 0) =>
          sd'.outcome = "timeout"]_vars
  /\ (sd.pc = "waiting") ~> (sd.pc = "returned")

\* Shutdown has returned "timed out" while a probe that was in flight at
\* cancel is still in flight
C11_Witness ==
  /\ sd.pc = "returned"
  /\ sd.outcome = "timeout"
  /\ \E t \in TaskIds : tasks[t].pc = "performCheck" /\ tasks[t].atCancel

\* C14: when listing the targets fails (the store fails the query, or the
\* context is cancelled), scheduleChecks returns to the loop having admitted
\* nothing; the loop ends only on cancellation, and every pass it starts
\* begins by listing the targets again.
C14_ListFailureAbortsOnlyThePass ==
  /\ [][(/\ sched.pc = "scheduleChecks"
          /\ sched'.pc # "scheduleChecks"
          /\ (storeFaults' # storeFaults \/ ctxDone)) =>
         /\ sched'.pc = "select"
         /\ tasks' = tasks
         /\ workers' = workers
         /\ wg' = wg]_vars
  /\ [][(sched.pc = "select" /\ sched'.pc # "select") =>
         \/ sched'.pc = "scheduleChecks" /\ passCount' = passCount + 1
         \/ sched'.pc = "exited" /\ ctxDone]_vars
  /\ [](sched.pc = "exited" => ctxDone)

\* the first pass failed to list (it admitted nothing and wrote nothing),
\* and the second pass, not cancelled, has listed and admitted a target
C14_Witness ==
  /\ ~ctxDone
  /\ storeFaults = 1
  /\ passCount = 2
  /\ \A t \in TaskIds : tasks[t].pass = 2
  /\ tasks # << >>

\* C15: failure isolation.  The step in which a probe's GET fails at
\* transport level changes nothing but that task and, when the write goes
\* through, appends that target's error row: the scheduler's pass, the
\* limiters, the context and every other task are as before.  Hence once
\* everything has settled (no shutdown, no store fault) every target of the
\* pass has its own row, errors only for the targets whose GET failed.
C15_ProbeFailureIsolated ==
  /\ [][\A t \in TaskIds :
          (/\ tasks[t].pc = "performCheck"
           /\ tasks'[t].pc = "releaseHost"
           /\ tasks'[t].got.err # Nil) =>
            /\ \A u \in TaskIds \ {t} : tasks'[u] = tasks[u]
            /\ Len(tasks') = Len(tasks)
            /\ sched' = sched
            /\ <<workers, hostSemaphores, ctxDone, wg>>' =
                 <<workers, hostSemaphores, ctxDone, wg>>
            /\ (~ctxDone /\ storeFaults' = storeFaults) =>
                 /\ Len(check_results') = Len(check_results) + 1
                 /\ LET row == check_results'[Len(check_results')]
                    IN  /\ row.target_id = tasks[t].target.ID
                        /\ row.error = {tasks'[t].got.err}
                        /\ row.status_code = NULL]_vars
  /\ [](SchedulerIdle /\ AllTasksDone /\ ~ctxDone /\ storeFaults = 0 =>
          \A r \in Rows(targets) :
            /\ Cardinality(ResultsOf(r.id)) = passCount
            /\ \A i \in ResultsOf(r.id) :
                 (check_results[i].error # NULL) <=>
                   (\A o \in Remote(r.url) : o.err # Nil))

\* a pass over a/1, a/2, a/3 has settled: a/2, whose GET fails, has its
\* error row, and a/1 and a/3 have their own status rows
C15_Witness ==
  /\ SchedulerIdle /\ AllTasksDone /\ ~ctxDone /\ storeFaults = 0
  /\ passCount = 1
  /\ \E i \in ResultsOf(2) : check_results[i].error # NULL
  /\ \E i \in ResultsOf(1) : check_results[i].status_code # NULL
  /\ \E i \in ResultsOf(3) : check_results[i].status_code # NULL

Finishing == {"releaseHost", "releaseWorker", "wgDone", "done"}

\* C16: when the store rejects the write of a check result the task does
\* not write again: the step leaves check_results, the scheduler, the
\* limiters and all other tasks as they are and takes the task to its
\* deferred releases, which are never blocked (the host's and the global
\* limiter hold its tokens) and which give back both slots; each task calls
\* InsertCheckResult at most once, so there are never more rows than tasks
\* that have left their probe.
C16_RejectedWriteNotRetried ==
  /\ [][\A t \in TaskIds :
          (tasks'[t] # tasks[t] /\ storeFaults' # storeFaults) =>
            /\ tasks[t].pc = "performCheck"
            /\ tasks'[t].pc = "releaseHost"
            /\ check_results' = check_results
            /\ \A u \in TaskIds \ {t} : tasks'[u] = tasks[u]
            /\ Len(tasks') = Len(tasks)
            /\ sched' = sched
            /\ <<workers, hostSemaphores, ctxDone, wg>>' =
                 <<workers, hostSemaphores, ctxDone, wg>>]_vars
  /\ [][\A t \in TaskIds :
          /\ Len(check_results') > Len(check_results) =>
               Len(check_results') = Len(check_results) + 1
          /\ tasks[t].pc \in Finishing => tasks'[t].pc \in Finishing]_vars
  /\ [](\A t \in TaskIds :
          /\ tasks[t].pc = "releaseHost" => SemCount(tasks[t].target.Host) > 0
          /\ tasks[t].pc = "releaseWorker" => workers > 0
          /\ tasks[t].pc = "wgDone" => wg > 0
          /\ tasks[t].pc \in {"wgDone", "done"} => tasks[t].slots = {})
  /\ [](Len(check_results) <=
          Cardinality({t \in TaskIds : tasks[t].pc \in Finishing}))

\* the store rejected the write of the only probe so far; its task has
\* finished, nothing was written, both limiters are empty again and the
\* scheduler is still running
C16_Witness ==
  /\ storeFaults = 1
  /\ ~ctxDone
  /\ Len(tasks) = 1
  /\ tasks[1].pc = "done"
  /\ check_results = << >>
  /\ workers = 0
  /\ SemCount(tasks[1].target.Host) = 0
  /\ sched.pc = "select"

\* C17: the probe executor never retries.  A task sends its GET when it
\* enters performCheck, which it does at most once (from the host-slot
\* acquisition, never again afterwards); when the GET has returned, with a
\* response or an error, the task leaves the probe with one result, and
\* that result gives at most one row.
C17_AtMostOneGetPerTask ==
  /\ [][\A t \in TaskIds :
          /\ (tasks'[t].pc = "performCheck" /\ tasks[t].pc # "performCheck") =>
               tasks[t].pc = "acquireHostSemaphore"
          /\ tasks'[t].pc = "acquireHostSemaphore" =>
               tasks[t].pc = "acquireHostSemaphore"
          /\ (tasks[t].pc = "performCheck" /\ tasks'[t].got # tasks[t].got) =>
               /\ tasks'[t].pc = "releaseHost"
               /\ Cardinality(tasks'[t].result) = 1]_vars
  /\ [](\A r \in Rows(targets) :
          Cardinality(ResultsOf(r.id)) <=
            Cardinality({t \in TaskIds : /\ tasks[t].target.ID = r.id
                                         /\ tasks[t].pc \in Finishing}))

\* the only task for a/2, whose GET fails, has finished with its one error
\* row and the scheduler has made one pass
C17_Witness ==
  /\ passCount = 1
  /\ ~ctxDone
  /\ Cardinality(TasksOf(1, 2)) = 1
  /\ \A t \in TasksOf(1, 2) : tasks[t].pc = "done"
  /\ Cardinality(ResultsOf(2)) = 1
  /\ \A i \in ResultsOf(2) : check_results[i].error # NULL

\* C18: a failed request is retried automatically: when a task's GET fails,
\* the task sends another GET (it is probing again after the step) or a new
\* task is spawned for the target in that step, instead of only recording
\* the failure.
C18_FailedGetIsRetried ==
  [][\A t \in TaskIds :
       (tasks[t].pc = "performCheck" /\ tasks'[t].got.err # Nil) =>
         \/ tasks'[t].pc = "performCheck"
         \/ Len(tasks') > Len(tasks)]_vars

\* C19: at most one request per host is in flight at any time: for every
\* host at most one task is probing a target of that host.
C19_OneRequestPerHost ==
  \A h \in Hosts :
    Cardinality({t \in Probing : tasks[t].target.Host = h}) <= 1

\* ids of the targets a listing with the scaled limit returns
FirstPage ==
  LET page == GetTargets(targets, "", ZeroTime, "", PageLimit).targets
  IN  {page[i].ID : i \in 1..Len(page)}

\* C20: when more targets exist than the list limit, a pass lists the first
\* limit-many by creation order and the next tick's pass picks up the ones
\* it skipped: a pass that follows a pass (no shutdown, no store fault) lists
\* some target that is not among the first limit-many.
C20_SkippedTargetsPickedUpNextTick ==
  [][(/\ sched.pc = "scheduleChecks"
      /\ sched'.pc = "admit"
      /\ passCount >= 2
      /\ storeFaults' = 0
      /\ ~ctxDone) =>
       /\ Len(sched'.targets) <= PageLimit
       /\ \E i \in 1..Len(sched'.targets) : sched'.targets[i].ID \notin FirstPage]_vars

\* ticks each ticker has produced so far (Start is called at time 0)
TicksSoFar == now \div CheckInterval

\* C12: Start is idempotent: however often Start is called there is one
\* scheduler loop, so there are never more scheduling passes than ticks of
\* the interval, and never more probe tasks for a target than ticks.
C12_StartIdempotent ==
  /\ passCount <= TicksSoFar
  /\ \A r \in Rows(targets) :
       Cardinality({t \in TaskIds : tasks[t].target.ID = r.id}) <= TicksSoFar

\* C13: Shutdown is idempotent.  A second call, made once the first has
\* begun, changes nothing but its own progress (the context stays
\* cancelled; scheduler, tasks, limiters, WaitGroup, store and the first
\* call are untouched, so it admits nothing and restarts nothing), always
\* returns (its own timer ends its wait), and reports "timed out" when it
\* returns with the WaitGroup not at zero.
C13_ShutdownIdempotent ==
  /\ [][sd2' # sd2 =>
         /\ ctxDone'
         /\ UNCHANGED <<maxConcurrency, workers, hostSemaphores, wg, procVars,
                        now, storeVars, histVars, sched2, tickPending2>>]_vars
  /\ [][ctxDone => ctxDone']_vars
  /\ [][(sd2.pc = "waiting" /\ sd2'.pc = "returned" /\ wg > 0) =>
          sd2'.outcome = "timeout"]_vars
  /\ (sd2.pc = "waiting") ~> (sd2.pc = "returned")

\* the second call, made while the first still waits, has returned clean
\* after a probe that was in flight finished; the first call has not
\* returned yet
C13_Witness ==
  /\ sd.pc = "waiting"
  /\ sd2.pc = "returned"
  /\ sd2.outcome = "graceful"
  /\ tasks # << >>

\* the limiter slots a task holds at each point of checkTarget
SlotsAt(pc) ==
  CASE pc = "acquireHostSemaphore" -> {{"global"}}
    [] pc = "performCheck"         -> {{"global", "host"}}
    [] pc = "releaseHost"          -> {{"global", "host"}}
    [] pc = "releaseWorker"        -> {{"global"}}
    [] OTHER                       -> {{}}

\* C28: slot ordering.  A task is spawned holding the global slot and
\* nothing else; it takes its host slot only while it holds the global
\* slot; it gives the global slot back only when it no longer holds the
\* host slot; and it is counted as finished (wg.Done) only when it holds
\* neither slot.
C28_SlotOrdering ==
  [][/\ \A t \in TaskIds :
          /\ ("host" \in tasks'[t].slots /\ "host" \notin tasks[t].slots)
               => "global" \in tasks[t].slots
          /\ ("global" \in tasks[t].slots /\ "global" \notin tasks'[t].slots)
               => "host" \notin tasks[t].slots
          /\ (tasks[t].pc # "done" /\ tasks'[t].pc = "done")
               => /\ tasks[t].slots = {}
                  /\ wg' = wg - 1
     /\ \A t \in (1..Len(tasks')) \ TaskIds :
          /\ tasks'[t].slots = {"global"}
          /\ tasks'[t].pc = "acquireHostSemaphore"]_vars

\* a task that probed has given back the host slot, then the global slot,
\* and is about to call wg.Done, while another task still holds both
C28_Witness ==
  \E t1, t2 \in TaskIds :
    /\ tasks[t1].pc = "wgDone"
    /\ tasks[t1].result # NULL
    /\ tasks[t1].slots = {}
    /\ tasks[t2].slots = {"global", "host"}

\* C29: no slot leak.  Whatever path a task takes, the tokens in the
\* workers channel and in every host channel are exactly the slots that
\* unfinished tasks hold, a task holds exactly the slots of its position in
\* checkTarget, a finished task holds none, and once all admitted tasks
\* have finished every limiter is empty.
C29_NoSlotLeak ==
  /\ \A t \in TaskIds : tasks[t].slots \in SlotsAt(tasks[t].pc)
  /\ workers = Cardinality(GlobalHolders)
  /\ \A h \in Hosts : SemCount(h) = Cardinality(HostHolders(h))
  /\ AllTasksDone => /\ workers = 0
                     /\ \A h \in Hosts : SemCount(h) = 0

\* every limiter is empty again after three tasks: two have finished, and
\* the last one, cancelled while it waited for its host slot (it has no
\* result), has given back its global slot and is about to call wg.Done
C29_Witness ==
  /\ Len(tasks) = 3
  /\ \E t \in TaskIds :
       /\ tasks[t].pc = "wgDone"
       /\ tasks[t].result = NULL
       /\ \A u \in TaskIds \ {t} : tasks[u].pc = "done"
  /\ Len(check_results) >= 1
  /\ workers = 0
  /\ \A h \in Hosts : SemCount(h) = 0

\* C30: passes never overlap.  After a single Start a pass begins only from
\* the scheduler's select, that is when the admission step of the pass
\* before it has returned; while a pass fetches or admits, no other pass
\* begins; and every task is admitted by the one pass in progress.
C30_PassesNeverOverlap ==
  [][/\ passCount' # passCount =>
          /\ sched.pc = "select"
          /\ passCount' = passCount + 1
          /\ sched'.pc = "scheduleChecks"
     /\ sched.pc \in {"scheduleChecks", "admit"} => passCount' = passCount
     /\ \A t \in (1..Len(tasks')) \ TaskIds :
          /\ sched.pc = "admit"
          /\ tasks'[t].pass = passCount]_vars

\* the second pass is admitting while a task of the first pass still probes
C30_Witness ==
  /\ passCount = 2
  /\ sched.pc = "admit"
  /\ \E t \in TaskIds : tasks[t].pass = 1 /\ tasks[t].pc = "performCheck"

\* the rows of a target that were checked at or after since
ResultsSince(targetID, since) ==
  {i \in 1..Len(check_results) :
     /\ check_results[i].target_id = targetID
     /\ parseTime(check_results[i].checked_at) >= since}

\* C21: GetResults(target, since, limit) returns exactly the results of
\* that target with checked_at >= since, newest first, cut to the first
\* limit, in whatever order the results were inserted: every returned
\* result is a row of the target checked at or after since, no row comes
\* twice, the sequence descends by checked_at, it has limit results or all
\* of them, and every qualifying row left out is no newer than those
\* returned.
C21_GetResultsExact ==
  call.op = "GetResults" =>
    LET ret == call.ret
        want == ResultsSince(call.targetID, call.since)
        got == {ret[k].ID : k \in DOMAIN ret}
    IN  /\ \A k \in DOMAIN ret : /\ ret[k].TargetID = call.targetID
                                 /\ ret[k].CheckedAt >= call.since
        /\ got \subseteq want
        /\ Cardinality(got) = Len(ret)
        /\ \A j, k \in DOMAIN ret : j < k => ret[j].CheckedAt >= ret[k].CheckedAt
        /\ Len(ret) = IF Cardinality(want) < call.limit
                      THEN Cardinality(want) ELSE call.limit
        /\ \A i \in want \ got, k \in DOMAIN ret :
             parseTime(check_results[i].checked_at) <= ret[k].CheckedAt

\* the row with this id
RowOf(id) == TheOne({r \in Rows(targets) : r.id = id})

\* the row lies strictly after the cursor in (created_at, id) order
AfterCursor(r, after) ==
  after # NULL =>
    \/ parseTime(r.created_at) > TheOne(after).CreatedAt
    \/ parseTime(r.created_at) = TheOne(after).CreatedAt /\ r.id > TheOne(after).ID

\* C22: GetTargets(host, cursor, limit) returns exactly the first limit
\* targets, in (created_at, id) ascending order, among those that match the
\* host filter and lie strictly after the cursor, with a cursor naming the
\* last one returned; and a client that fetches page after page with the
\* returned cursor until there is none has then seen every target of the
\* listing exactly once: no target twice, and none that was in the table at
\* its last fetch left out, whatever was registered between the fetches.
C22_PagingVisitsEveryTargetOnce ==
  pager.pc # "idle" =>
    LET page == pager.page
        ids == {page[i].ID : i \in DOMAIN page}
        rest == {id \in Listed(targets, pager.host) \ ids :
                   AfterCursor(RowOf(id), pager.after)}
    IN  /\ \A i \in DOMAIN page :
             /\ page[i].ID \in Listed(targets, pager.host)
             /\ AfterCursor(RowOf(page[i].ID), pager.after)
        /\ \A i, j \in DOMAIN page :
             i < j => TargetBefore(RowOf(page[i].ID), RowOf(page[j].ID))
        /\ Len(page) <= pager.limit
        /\ pager.pc = "paging" =>
             /\ pager.cursor = {[CreatedAt |-> page[Len(page)].CreatedAt,
                                 ID |-> page[Len(page)].ID]}
             /\ \A id \in pager.listed \ ids :
                  AfterCursor(RowOf(id), pager.after) =>
                    /\ Len(page) = pager.limit
                    /\ TargetBefore(RowOf(page[Len(page)].ID), RowOf(id))
        /\ \A i, j \in DOMAIN pager.visited :
             i # j => pager.visited[i] # pager.visited[j]
        /\ pager.pc = "done" =>
             pager.listed \subseteq {pager.visited[i] : i \in DOMAIN pager.visited}

\* the parameters a query carries: its pairs, unescaped, as a sequence
QueryParams(query) == ParseQuery(query)

\* the two queries carry the same parameters, each as often
SameParams(q1, q2) ==
  \A p \in {q1[i] : i \in DOMAIN q1} \cup {q2[i] : i \in DOMAIN q2} :
    Cardinality({i \in DOMAIN q1 : q1[i] = p})
      = Cardinality({i \in DOMAIN q2 : q2[i] = p})

\* C26: Canonicalize maps an http/https URL to its canonical form: scheme
\* and host lowercased, the default port (80 for http, 443 for https)
\* removed and any other port kept, the fragment removed, the same query
\* parameters sorted by key, a trailing slash removed from the path (a root
\* path becomes empty); it returns the lowercased host; a URL of any other
\* scheme is rejected with an error.
C26_CanonicalForm ==
  call.op = "Canonicalize" =>
    LET raw == call.raw
        ret == call.ret
        scheme == ToLower(raw.scheme)
    IN  IF scheme \in {"http", "https"}
        THEN /\ ret.err = Nil
             /\ LET out == TheOne(ret.url)
                    params == QueryParams(out.query)
                IN  /\ out.scheme = scheme
                    /\ out.host = ToLower(raw.host)
                    /\ out.port = IF <<scheme, raw.port>> \in
                                       {<<"http", "80">>, <<"https", "443">>}
                                  THEN "" ELSE raw.port
                    /\ out.fragment = ""
                    /\ SameParams(params, QueryParams(raw.query))
                    /\ \A i, j \in DOMAIN params :
                         i < j => KeyRank(params[i].k) <= KeyRank(params[j].k)
                    /\ out.path = IF raw.path # << >> /\ raw.path[Len(raw.path)] = "/"
                                  THEN SubSeq(raw.path, 1, Len(raw.path) - 1)
                                  ELSE raw.path
                    /\ TheOne(ret.host).name = ToLower(raw.host)
        ELSE /\ ret.err # Nil
             /\ ret.url = NULL

\* the values that parse: Go durations (numbers with their units, or "0")
\* and integers
DurationTexts == {"30s", "1m", "-1s", "0"}
IntegerTexts == {"4", "0"}

\* C27: configuration loading.  When Load returns a Config, each of
\* CHECK_INTERVAL, MAX_CONCURRENCY, HTTP_TIMEOUT and SHUTDOWN_GRACE that is
\* absent or empty has its documented default (15s, 8, 5s, 10s); when one
\* of them is present with a value that cannot be parsed (as a duration,
\* or as an integer for MAX_CONCURRENCY), Load returns an error and no
\* Config; and when all are absent or empty Load returns the Config of the
\* four defaults.
C27_ConfigDefaultsAndErrors ==
  call.op = "Load" =>
    LET env == call.env
        ret == call.ret
        unset(key) == env[key] = NULL \/ env[key] = {""}
        texts(key) == IF key = "MAX_CONCURRENCY" THEN IntegerTexts ELSE DurationTexts
        unparsable(key) == ~unset(key) /\ TheOne(env[key]) \notin texts(key)
    IN  /\ (ret.err = Nil) = (ret.cfg # NULL)
        /\ (\E key \in EnvKeys : unparsable(key)) => ret.err # Nil /\ ret.cfg = NULL
        /\ (\A key \in EnvKeys : unset(key)) =>
             ret.cfg = {[CheckInterval |-> 15, MaxConcurrency |-> 8,
                         HTTPTimeout |-> 5, ShutdownGrace |-> 10]}
        /\ ret.cfg # NULL =>
             LET cfg == TheOne(ret.cfg)
             IN  /\ unset("CHECK_INTERVAL") => cfg.CheckInterval = 15
                 /\ unset("MAX_CONCURRENCY") => cfg.MaxConcurrency = 8
                 /\ unset("HTTP_TIMEOUT") => cfg.HTTPTimeout = 5
                 /\ unset("SHUTDOWN_GRACE") => cfg.ShutdownGrace = 10

\* a Config with three defaults, one from an empty variable, next to a
\* timeout read from the environment
C27_Witness ==
  /\ call.op = "Load"
  /\ call.env = [k \in EnvKeys |->
                   CASE k = "MAX_CONCURRENCY" -> {""}
                     [] k = "HTTP_TIMEOUT" -> {"30s"}
                     [] OTHER -> NULL]
  /\ call.ret.cfg = {[CheckInterval |-> 15, MaxConcurrency |-> 8,
                      HTTPTimeout |-> 30, ShutdownGrace |-> 10]}

\* C23: idempotency-key storage.  An UpsertIdempotencyKey for a key that
\* has no entry stores the response (one new row for the key, holding the
\* code and the body) and reports created=true; one for a key that has an
\* entry reports created=false, returns the stored code and body and
\* leaves the table as it is; GetIdempotencyKey reports found=true, with
\* the stored response, exactly when the key has an entry, and changes
\* nothing; no entry is ever changed or removed, so the entry of a key is
\* the response stored first.
C23_IdempotencyKeyStorage ==
  [][LET had == SelectIdempotency(idempotency_keys, call'.key)
     IN  /\ call'.op = "UpsertIdempotencyKey" =>
              IF had = {}
              THEN /\ call'.created
                   /\ call'.resp = {[ResponseCode |-> call'.responseCode,
                                     ResponseBody |-> call'.responseBody]}
                   /\ Len(idempotency_keys') = Len(idempotency_keys) + 1
                   /\ LET row == idempotency_keys'[Len(idempotency_keys')]
                      IN  /\ row.key = call'.key
                          /\ row.response_code = call'.responseCode
                          /\ UnmarshalJSON(row.response_body)
                               = UnmarshalJSON(MarshalJSON(call'.responseBody))
              ELSE /\ ~call'.created
                   /\ call'.resp = {StoredResponse(TheOne(had))}
                   /\ idempotency_keys' = idempotency_keys
         /\ call'.op = "GetIdempotencyKey" =>
              /\ call'.found = (had # {})
              /\ call'.found => call'.resp = {StoredResponse(TheOne(had))}
              /\ idempotency_keys' = idempotency_keys
         /\ \A i \in DOMAIN idempotency_keys :
              /\ i \in DOMAIN idempotency_keys'
              /\ idempotency_keys'[i] = idempotency_keys[i]
         /\ Cardinality(SelectIdempotency(idempotency_keys', call'.key)) <= 1]_vars

\* a second Upsert for a key, made with another code and body, has
\* returned the response stored first
C23_Witness ==
  /\ call.op = "UpsertIdempotencyKey"
  /\ ~call.created
  /\ call.responseCode # TheOne(call.resp).ResponseCode
  /\ UnmarshalJSON(MarshalJSON(call.responseBody)) # TheOne(call.resp).ResponseBody
  /\ Len(idempotency_keys) = 1

\* request j began after request i had been answered
Later(i, j) == i \in reqs[j].before

\* request i ran with no other request in progress and no store failure
Undisturbed(i) ==
  /\ \A j \in ReqIds \ {i} : Later(i, j) \/ Later(j, i)
  /\ reqs[i].status # 500

\* the key of request i is used for its body only
OneBodyPerKey(i) ==
  \A m \in ReqIds : reqs[m].key = reqs[i].key => reqs[m].body = reqs[i].body

\* C24: replaying POST /v1/targets with the same Idempotency-Key and the
\* same body.  The first request (the URL not yet registered, the key not
\* yet stored) answers 201 with the target it created; when the key is
\* used with that body only, every request with the key that begins after
\* the first was answered, and is not failed by the store, answers 200 with
\* the same target id and url and creates nothing; and there is one target
\* for the URL.
C24_ReplayWithSameKey ==
  /\ \A i \in Responded :
       (reqs[i].key # "" /\ reqs[i].fresh /\ Undisturbed(i)) =>
         /\ reqs[i].status = 201
         /\ reqs[i].created
         /\ TheOne(reqs[i].response).url = TheOne(reqs[i].canonicalURL)
         /\ \E r \in Rows(targets) :
              /\ r.id = TheOne(reqs[i].response).id
              /\ r.url = TheOne(reqs[i].response).url
  /\ \A i, j \in Responded :
       (/\ reqs[i].key # ""
        /\ OneBodyPerKey(i)
        /\ reqs[j].key = reqs[i].key
        /\ reqs[i].status = 201
        /\ Later(i, j)
        /\ reqs[j].status # 500) =>
         /\ reqs[j].status = 200
         /\ TheOne(reqs[j].response).id = TheOne(reqs[i].response).id
         /\ TheOne(reqs[j].response).url = TheOne(reqs[i].response).url
         /\ ~reqs[j].created
         /\ Cardinality({k \in 1..Len(targets) :
                           {targets[k].url} = reqs[i].canonicalURL}) = 1

\* the request was answered 201 and stored its response under the key; two
\* replays, one after the other, were answered 200 from the stored response
C24_Witness ==
  /\ Len(reqs) = 3
  /\ Responded = {1, 2, 3}
  /\ reqs[1].key # ""
  /\ reqs[1].status = 201
  /\ Len(idempotency_keys) = 1
  /\ \A j \in {2, 3} : /\ reqs[j].key = reqs[1].key
                       /\ reqs[j].body = reqs[1].body
                       /\ reqs[j].status = 200
                       /\ reqs[j].target = NULL
  /\ Later(1, 2) /\ Later(2, 3)

\* C25: registering a URL without an idempotency key.  The first
\* registration of a canonical URL creates the target (created, 201);
\* every registration of the same canonical URL that begins after it was
\* answered, and is not failed by the store, returns that target unchanged
\* (not created, 200, the same id, url, host and created_at); there is at
\* most one target per canonical URL; and whenever two answers carry the
\* same target id they carry the same url, host and created_at.
C25_RegisterWithoutKey ==
  /\ \A i \in Responded :
       (reqs[i].key = "" /\ reqs[i].fresh /\ Undisturbed(i)) =>
         reqs[i].status = 201 /\ reqs[i].created
  /\ \A i, j \in Responded :
       (/\ reqs[i].key = "" /\ reqs[j].key = ""
        /\ reqs[j].canonicalURL = reqs[i].canonicalURL
        /\ reqs[i].status = 201
        /\ Later(i, j)
        /\ reqs[j].status # 500) =>
         /\ reqs[j].status = 200
         /\ ~reqs[j].created
         /\ reqs[j].response = reqs[i].response
  /\ \A k1, k2 \in 1..Len(targets) : k1 # k2 => targets[k1].url # targets[k2].url
  /\ \A i, j \in Responded :
       (/\ reqs[i].key = "" /\ reqs[j].key = ""
        /\ reqs[i].status \in {200, 201} /\ reqs[j].status \in {200, 201}
        /\ TheOne(reqs[i].response).id = TheOne(reqs[j].response).id) =>
         reqs[i].response = reqs[j].response

\* ------------------------------------------------ cancellation and the waits
\* checkTarget blocked in the select of acquireHostSemaphore
WaitStep(t) ==
  \/ acquireHostSemaphoreSend(t)
  \/ acquireHostSemaphoreCtxDone(t)

\* The process started on three targets of one host, more than the host
\* limiter admits, and shut down during or after the first pass.
CancelInit == Init /\ targets = InitialRows(<<"a/1", "a/2", "a/3">>)

CancelNext ==
  \/ now < MaxApiNow /\ ClockAdvance /\ UNCHANGED restVars
  \/ Start /\ UNCHANGED restVars
  \/ SchedulerStep /\ UNCHANGED restVars
  \/ \E t \in TaskIds : TaskStep(t) /\ UNCHANGED restVars
  \/ ShutdownStep /\ UNCHANGED restVars

\* The Go runtime runs the scheduler goroutine and every task blocked in the
\* select of acquireHostSemaphore whenever one of the select's cases is
\* ready.  Nothing is assumed about a task that holds a host slot: its GET
\* or its store write may stall for ever, and its slots are never freed.
CancelSpec ==
  /\ CancelInit /\ [][CancelNext]_vars
  /\ WF_vars(SchedulerStep /\ UNCHANGED restVars)
  /\ \A t \in 1..MaxTasks :
       WF_vars(t \in TaskIds /\ WaitStep(t) /\ UNCHANGED restVars)

\* every HTTP call and every store write of a task terminates, and the task
\* runs its deferred calls
TasksTerminate ==
  \A t \in 1..MaxTasks :
    WF_vars(t \in TaskIds /\ TaskStep(t) /\ UNCHANGED restVars)

Waiting == {t \in TaskIds : tasks[t].pc = "acquireHostSemaphore"}

\* C31: cancellation reaches every blocking wait.  Once the context is
\* cancelled, the exit case of each blocking select is ready whatever the
\* limiters hold: of the scheduler's select on the ticker, of the pass's
\* select on the global limiter, and of a task's select on its host
\* limiter.  So, also when no task that holds a slot ever frees it, the
\* scheduler loop exits and no task stays blocked on a host slot; and when
\* moreover every HTTP call and store write terminates, the scheduler loop
\* and all tasks finish and the WaitGroup reaches zero.
C31_CancellationReachesEveryWait ==
  /\ [](ctxDone =>
          /\ sched.pc = "select" => ENABLED (schedulerCtxDone /\ UNCHANGED restVars)
          /\ sched.pc = "admit" => ENABLED (scheduleChecksCtxDone /\ UNCHANGED restVars)
          /\ \A t \in Waiting :
               ENABLED (acquireHostSemaphoreCtxDone(t) /\ UNCHANGED restVars))
  /\ ctxDone ~> (sched.pc = "exited" /\ Waiting = {})
  /\ TasksTerminate => (ctxDone ~> (sched.pc = "exited" /\ AllTasksDone /\ wg = 0))

\* the scheduler loop has exited and a task that waited for the slot of
\* host a has left its wait without a result, while the two tasks that hold
\* the slots of host a are still in their GET
C31_Witness ==
  /\ ctxDone
  /\ sched.pc = "exited"
  /\ SemCount("a") = HostCap
  /\ \E t \in TaskIds :
       /\ tasks[t].pc \in {"releaseWorker", "wgDone"}
       /\ tasks[t].result = NULL
       /\ tasks[t].target.Host = "a"
       /\ \A u \in TaskIds \ {t} : tasks[u].pc = "performCheck"

\* a task that left the wait for its host slot by the cancellation case and
\* has not yet ended: it is in its deferred calls and has no result
CancelledInWait(t) ==
  /\ tasks[t].pc \in {"releaseWorker", "wgDone"}
  /\ tasks[t].result = NULL

\* tokens in the channel of host h in limiter map sems
TokensOf(sems, h) == IF h \in DOMAIN sems THEN sems[h] ELSE 0

\* C32: a task whose host-slot acquisition is ended by cancellation exits
\* without a GET and without a CheckResult.  A wait that ends otherwise than
\* by getting the slot ends under a cancelled context, in the deferred
\* release of the global slot, with no host slot taken, no token moved in
\* any host channel and nothing written; from there the task never sends a
\* GET, never has a result, never holds a host slot, its steps write nothing
\* and touch no host channel, and its next step gives its global slot back.
C32_CancelledWaitLeavesNoTrace ==
  [][\A t \in TaskIds :
       /\ (tasks[t].pc = "acquireHostSemaphore"
           /\ tasks'[t].pc \notin {"acquireHostSemaphore", "performCheck"}) =>
            /\ ctxDone
            /\ tasks'[t].pc = "releaseWorker"
            /\ tasks'[t].slots = {"global"}
            /\ tasks'[t].result = NULL
            /\ check_results' = check_results
            /\ \A h \in Hosts :
                 TokensOf(hostSemaphores', h) = TokensOf(hostSemaphores, h)
       /\ CancelledInWait(t) =>
            /\ tasks'[t].pc \in {"releaseWorker", "wgDone", "done"}
            /\ tasks'[t].result = NULL
            /\ "host" \notin tasks'[t].slots
            /\ tasks'[t] # tasks[t] =>
                 /\ check_results' = check_results
                 /\ hostSemaphores' = hostSemaphores
            /\ (tasks[t].pc = "releaseWorker" /\ tasks'[t].pc # "releaseWorker") =>
                 /\ tasks'[t].pc = "wgDone"
                 /\ tasks'[t].slots = {}
                 /\ workers' = workers - 1]_vars

\* a task cancelled in its wait for the slot of host a has given back its
\* global slot: the store has no result of its target, and the host channel
\* still holds the two tokens of the tasks that have the slots
C32_Witness ==
  /\ ctxDone
  /\ \E t \in TaskIds :
       /\ tasks[t].pc = "wgDone"
       /\ tasks[t].result = NULL
       /\ tasks[t].slots = {}
       /\ ResultsOf(tasks[t].target.ID) = {}
       /\ SemCount(tasks[t].target.Host) = HostCap
       /\ workers = Len(tasks) - 1

\* ------------------------------------------------- Shutdown with its timer
\* The same program with the timer of Shutdown's select on the clock:
\* time.After(c.shutdownGrace) delivers once shutdownGrace has elapsed
\* since the call.

\* Checker.Shutdown: c.cancel(), the waiter goroutine, and
\* time.After(c.shutdownGrace) starts its timer
ShutdownStartsTimer ==
  /\ started
  /\ sd.pc = "idle"
  /\ ctxDone' = TRUE
  /\ sd' = [pc |-> "waiting", outcome |-> "none",
            deadline |-> now + ShutdownGrace, inFlight |-> {}]
  /\ tasks' = [t \in TaskIds |->
                 [tasks[t] EXCEPT !.atCancel = (tasks[t].pc = "performCheck")]]
  /\ UNCHANGED <<maxConcurrency, workers, hostSemaphores, wg, started, sched,
                 tickPending, now, storeVars, histVars>>

\* a timer channel that is ready as soon as the select is reached
ShutdownTimerReadyAtOnce ==
  /\ sd.pc = "waiting"
  /\ sd' = [sd EXCEPT !.pc = "returned", !.outcome = "timeout",
                       !.inFlight = Probing]
  /\ UNCHANGED <<checkerVars, started, sched, tickPending, tasks, now, storeVars,
                 histVars>>

\* Checker.Shutdown, select case <-time.After(c.shutdownGrace): the timer
\* has delivered; inFlight records the tasks whose GET is in flight when
\* Shutdown returns
ShutdownAfterGrace ==
  /\ sd.pc = "waiting"
  /\ now >= sd.deadline
  /\ sd' = [sd EXCEPT !.pc = "returned", !.outcome = "timeout",
                       !.inFlight = Probing]
  /\ UNCHANGED <<checkerVars, started, sched, tickPending, tasks, now, storeVars,
                 histVars>>

TimedNext ==
  \/ ClockAdvance /\ UNCHANGED restVars
  \/ Start /\ UNCHANGED restVars
  \/ SchedulerStep /\ UNCHANGED restVars
  \/ \E t \in TaskIds : TaskStep(t) /\ UNCHANGED restVars
  \/ ShutdownStartsTimer /\ UNCHANGED restVars
  \/ ShutdownGraceful /\ UNCHANGED restVars
  \/ ShutdownAfterGrace /\ UNCHANGED restVars

TimedSpec == Init /\ [][TimedNext]_vars

\* C33: Shutdown reports the clean outcome only in a state where the
\* scheduler loop has exited and every admitted task has finished and
\* released its slots (the WaitGroup is at zero and every limiter is empty),
\* and nothing changes that afterwards; it reports the forced outcome only
\* when the grace period has elapsed since the call.
C33_ShutdownOutcomes ==
  /\ sd.outcome = "graceful" =>
       /\ sched.pc = "exited"
       /\ AllTasksDone
       /\ wg = 0
       /\ workers = 0
       /\ \A h \in Hosts : SemCount(h) = 0
  /\ sd.outcome = "timeout" => now >= sd.deadline

\* Shutdown has reported the clean outcome before the grace period was over:
\* the scheduler loop has exited and the three tasks admitted have finished,
\* at least one of them with a stored result
C33_Witness ==
  /\ sd.outcome = "graceful"
  /\ now < sd.deadline
  /\ sched.pc = "exited"
  /\ Len(tasks) = 3
  /\ AllTasksDone
  /\ Len(check_results) >= 1

\* C34: forced exit loses results without corrupting state.  Once Shutdown
\* has returned by grace-period expiry no step changes table check_results
\* or table targets: a probe still in flight at that moment completes, if it
\* completes at all, without its result being written, and the rows already
\* stored stay as they are.
C34_ForcedExitLosesResultsOnly ==
  [][sd.outcome = "timeout" =>
       /\ check_results' = check_results
       /\ targets' = targets
       /\ \A t \in sd.inFlight :
            tasks'[t].pc # "performCheck" =>
              ResultsOf(tasks[t].target.ID) =
                {i \in 1..Len(check_results') :
                   check_results'[i].target_id = tasks[t].target.ID}]_vars

\* a probe that was in flight when Shutdown returned "timed out" has since
\* completed with a result, and the store holds no result of its target,
\* while it holds one written before the shutdown
C34_Witness ==
  /\ sd.outcome = "timeout"
  /\ Len(check_results) >= 1
  /\ \E t \in sd.inFlight :
       /\ tasks[t].pc = "releaseHost"
       /\ tasks[t].result # NULL
       /\ ResultsOf(tasks[t].target.ID) = {}

\* ------------------------------------------------ the limiter map, by lock
\* acquireHostSemaphore and releaseHostSemaphore step by step: the mutex,
\* the map lookup, make, and the channel operations, with every channel
\* known by its identity (its position in chans).
limFrame == <<maxConcurrency, workers, hostSemaphores, wg, procVars, histVars,
              apiVars, now, storeVars, svcVars>>

CallerIds == 1..Len(callers)

\* go c.checkTarget(target): a goroutine reaches acquireHostSemaphore(host)
checkTargetCalls(h) ==
  /\ Len(callers) < MaxCallers
  /\ callers' = Append(callers, [host |-> h, pc |-> "Lock", sem |-> NULL,
                                 exists |-> FALSE])
  /\ UNCHANGED <<limFrame, ctxDone, hostMutex, semOf, chans>>

\* c.cancel()
limiterCancel ==
  /\ ~ctxDone
  /\ ctxDone' = TRUE
  /\ UNCHANGED <<limFrame, limVars>>

\* a lock that excludes nobody
hostMutexLockNoExclusion(p) ==
  /\ callers[p].pc = "Lock"
  /\ callers' = [callers EXCEPT ![p].pc = "lookup"]
  /\ UNCHANGED <<limFrame, ctxDone, hostMutex, semOf, chans>>

\* acquireHostSemaphore: c.hostMutex.Lock()
hostMutexLock(p) ==
  /\ callers[p].pc = "Lock"
  /\ hostMutex.writer = {}
  /\ hostMutex.readers = {}
  /\ hostMutex' = [hostMutex EXCEPT !.writer = {p}]
  /\ callers' = [callers EXCEPT ![p].pc = "lookup"]
  /\ UNCHANGED <<limFrame, ctxDone, semOf, chans>>

\* acquireHostSemaphore: sem, exists := c.hostSemaphores[host]
acquireLookup(p) ==
  /\ callers[p].pc = "lookup"
  /\ LET host == callers[p].host
     IN  callers' = IF host \in DOMAIN semOf
                    THEN [callers EXCEPT ![p].pc = "Unlock", ![p].exists = TRUE,
                                         ![p].sem = {semOf[host]}]
                    ELSE [callers EXCEPT ![p].pc = "make", ![p].exists = FALSE]
  /\ UNCHANGED <<limFrame, ctxDone, hostMutex, semOf, chans>>

\* acquireHostSemaphore, if !exists: sem = make(chan struct{}, 2);
\* c.hostSemaphores[host] = sem
acquireMake(p) ==
  /\ callers[p].pc = "make"
  /\ LET host == callers[p].host
         sem == Len(chans) + 1
     IN  /\ chans' = Append(chans, 0)
         /\ semOf' = [h \in DOMAIN semOf \cup {host} |->
                        IF h = host THEN sem ELSE semOf[h]]
         /\ callers' = [callers EXCEPT ![p].pc = "Unlock", ![p].sem = {sem}]
  /\ UNCHANGED <<limFrame, ctxDone, hostMutex>>

\* acquireHostSemaphore: c.hostMutex.Unlock()
hostMutexUnlock(p) ==
  /\ callers[p].pc = "Unlock"
  /\ hostMutex' = [hostMutex EXCEPT !.writer = {}]
  /\ callers' = [callers EXCEPT ![p].pc = "select"]
  /\ UNCHANGED <<limFrame, ctxDone, semOf, chans>>

\* acquireHostSemaphore, select case sem <- struct{}{}: return true
acquireSend(p) ==
  /\ callers[p].pc = "select"
  /\ LET sem == TheOne(callers[p].sem)
     IN  /\ chans[sem] < HostCap
         /\ chans' = [chans EXCEPT ![sem] = @ + 1]
  /\ callers' = [callers EXCEPT ![p].pc = "holding"]
  /\ UNCHANGED <<limFrame, ctxDone, hostMutex, semOf>>

\* acquireHostSemaphore, select case <-c.ctx.Done(): return false
acquireCtxDone(p) ==
  /\ callers[p].pc = "select"
  /\ ctxDone
  /\ callers' = [callers EXCEPT ![p].pc = "done"]
  /\ UNCHANGED <<limFrame, ctxDone, hostMutex, semOf, chans>>

\* releaseHostSemaphore (deferred, after the probe): c.hostMutex.RLock()
hostMutexRLock(p) ==
  /\ callers[p].pc = "holding"
  /\ hostMutex.writer = {}
  /\ hostMutex' = [hostMutex EXCEPT !.readers = @ \cup {p}]
  /\ callers' = [callers EXCEPT ![p].pc = "rlookup"]
  /\ UNCHANGED <<limFrame, ctxDone, semOf, chans>>

\* releaseHostSemaphore: sem, exists := c.hostSemaphores[host];
\* c.hostMutex.RUnlock()
releaseLookup(p) ==
  /\ callers[p].pc = "rlookup"
  /\ LET host == callers[p].host
     IN  callers' = IF host \in DOMAIN semOf
                    THEN [callers EXCEPT ![p].pc = "receive", ![p].exists = TRUE,
                                         ![p].sem = {semOf[host]}]
                    ELSE [callers EXCEPT ![p].pc = "done", ![p].exists = FALSE,
                                         ![p].sem = NULL]
  /\ hostMutex' = [hostMutex EXCEPT !.readers = @ \ {p}]
  /\ UNCHANGED <<limFrame, ctxDone, semOf, chans>>

\* releaseHostSemaphore, if exists: <-sem
releaseReceive(p) ==
  /\ callers[p].pc = "receive"
  /\ LET sem == TheOne(callers[p].sem)
     IN  /\ chans[sem] > 0
         /\ chans' = [chans EXCEPT ![sem] = @ - 1]
  /\ callers' = [callers EXCEPT ![p].pc = "done"]
  /\ UNCHANGED <<limFrame, ctxDone, hostMutex, semOf>>

LimiterInit == IdleInit /\ now = 0 /\ targets = << >> /\ check_results = << >>
               /\ idempotency_keys = << >> /\ reqs = << >>
               /\ call = [op |-> "none"] /\ pager = [pc |-> "idle"]

LimiterNext ==
  \/ \E h \in Hosts : checkTargetCalls(h)
  \/ limiterCancel
  \/ \E p \in CallerIds : hostMutexLock(p)
  \/ \E p \in CallerIds : acquireLookup(p)
  \/ \E p \in CallerIds : acquireMake(p)
  \/ \E p \in CallerIds : hostMutexUnlock(p)
  \/ \E p \in CallerIds : acquireSend(p)
  \/ \E p \in CallerIds : acquireCtxDone(p)
  \/ \E p \in CallerIds : hostMutexRLock(p)
  \/ \E p \in CallerIds : releaseLookup(p)
  \/ \E p \in CallerIds : releaseReceive(p)

LimiterSpec == LimiterInit /\ [][LimiterNext]_vars

\* callers that have taken a token of host h and not yet given it back
HoldersOf(h) ==
  {p \in CallerIds : callers[p].host = h
                     /\ callers[p].pc \in {"holding", "rlookup", "receive"}}

\* callers whose locked get-or-create for their host is over
Referenced(p) ==
  callers[p].pc \in {"Unlock", "select", "holding", "rlookup", "receive", "done"}

\* C35: host limiters are created lazily and never removed or replaced.
\* Under any interleaving of the callers, each host that a caller has
\* referenced has a limiter, the channels made are exactly the limiters of
\* the hosts (one per host, none made twice), the channel a caller sends to
\* or receives from is the one the map holds for its host, a release always
\* finds the limiter, the tokens in a host's channel are those of the callers
\* holding its slot, and no step removes a host from the map or gives it
\* another channel.
C35_OneLimiterPerHost ==
  /\ [](/\ \A p \in CallerIds :
             /\ Referenced(p) => callers[p].host \in DOMAIN semOf
             /\ callers[p].sem # NULL =>
                  /\ callers[p].host \in DOMAIN semOf
                  /\ callers[p].sem = {semOf[callers[p].host]}
             /\ callers[p].pc = "receive" => callers[p].exists
        /\ Len(chans) = Cardinality(DOMAIN semOf)
        /\ \A h \in DOMAIN semOf :
             /\ semOf[h] \in 1..Len(chans)
             /\ \A g \in DOMAIN semOf : semOf[g] = semOf[h] => g = h
             /\ chans[semOf[h]] = Cardinality(HoldersOf(h))
             /\ chans[semOf[h]] <= HostCap)
  /\ [][\A h \in DOMAIN semOf :
          /\ h \in DOMAIN semOf'
          /\ semOf'[h] = semOf[h]]_vars

\* two goroutines reference the new host a at the same time: one has made
\* its limiter and still holds the mutex, the other waits at Lock; a third
\* holds a slot of host b
C35_Witness ==
  \E p, q, r \in CallerIds :
    /\ callers[p].host = "a" /\ callers[q].host = "a" /\ callers[r].host = "b"
    /\ callers[p].pc = "Unlock" /\ ~callers[p].exists
    /\ callers[q].pc = "Lock"
    /\ callers[r].pc = "holding"
    /\ hostMutex.writer = {p}
    /\ DOMAIN semOf = {"a", "b"}

\* C36: Load never returns a Config with a non-positive setting.  Whenever
\* Load returns a Config, its CheckInterval, HTTPTimeout, ShutdownGrace and
\* MaxConcurrency are all positive: a zero or negative value of one of the
\* four variables makes Load return an error and no Config.
C36_NoNonPositiveSetting ==
  (call.op = "Load" /\ call.ret.cfg # NULL) =>
    LET cfg == TheOne(call.ret.cfg)
    IN  /\ cfg.CheckInterval > 0
        /\ cfg.HTTPTimeout > 0
        /\ cfg.ShutdownGrace > 0
        /\ cfg.MaxConcurrency > 0

\* the part of it that the code keeps: MaxConcurrency is positive
MaxConcurrencyPositive ==
  (call.op = "Load" /\ call.ret.cfg # NULL) =>
    TheOne(call.ret.cfg).MaxConcurrency > 0

\* ------------------------------------------------- one host, many targets
\* The checker started on more targets of a single host than it has global
\* slots, and never shut down: one pass, whose tasks queue for the two
\* slots of the host while they hold the global slots.
NestedURLs == [i \in 1..MaxNestedTargets |->
                 CASE i = 1 -> "a/1" [] i = 2 -> "a/2" [] i = 3 -> "a/3"
                   [] i = 4 -> "a/4" [] i = 5 -> "a/5" [] OTHER -> "a/6"]

NestedInit ==
  /\ maxConcurrency \in 1..MaxNestedG
  /\ workers = 0
  /\ hostSemaphores = [h \in {} |-> 0]
  /\ ctxDone = FALSE
  /\ wg = 0
  /\ started = FALSE
  /\ sched = [pc |-> "none", nextTick |-> 0, targets |-> << >>, idx |-> 1]
  /\ tickPending = FALSE
  /\ tasks = << >>
  /\ sd = [pc |-> "idle", outcome |-> "none"]
  /\ now = 0
  /\ targets = InitialRows(NestedURLs)
  /\ check_results = << >>
  /\ passCount = 0
  /\ storeFaults = 0
  /\ sched2 = [pc |-> "none", nextTick |-> 0, targets |-> << >>, idx |-> 1]
  /\ tickPending2 = FALSE
  /\ sd2 = [pc |-> "idle", outcome |-> "none"]
  /\ idempotency_keys = << >>
  /\ reqs = << >>
  /\ call = [op |-> "none"]
  /\ pager = [pc |-> "idle"]
  /\ hostMutex = [writer |-> {}, readers |-> {}]
  /\ semOf = [h \in {} |-> 0]
  /\ chans = << >>
  /\ callers = << >>

\* time passes until the first tick is due, and the ticker buffers it
FirstTick ==
  /\ started
  /\ now < MaxApiNow
  /\ now' = now + 1
  /\ IF TickerFires
     THEN /\ tickPending' = TRUE
          /\ sched' = [sched EXCEPT !.nextTick = @ + CheckInterval]
     ELSE UNCHANGED <<tickPending, sched>>
  /\ UNCHANGED <<checkerVars, started, tasks, sd, storeVars, histVars>>

\* checkTarget with a store that serves every call; the context is never
\* cancelled
NestedTaskStep(t) ==
  \/ acquireHostSemaphoreSend(t)
  \/ \E got \in Remote(tasks[t].target.URL) : InsertCheckResult(t, got, TRUE)
  \/ releaseHostSemaphore(t)
  \/ releaseWorker(t)
  \/ wgDone(t)

\* the scheduler goroutine with a store that serves every call
NestedSchedulerStep ==
  \/ schedulerTick
  \/ scheduleChecksFetch(TRUE)
  \/ scheduleChecksAdmit

\* main has called Start and waits for a signal that does not come
NestedNext ==
  \/ FirstTick /\ UNCHANGED restVars
  \/ Start /\ UNCHANGED restVars
  \/ NestedSchedulerStep /\ UNCHANGED restVars
  \/ \E t \in TaskIds : NestedTaskStep(t) /\ UNCHANGED restVars

\* The Go runtime runs every probe task that can run: the GET returns within
\* httpTimeout and the store call returns.  Nothing is assumed about the
\* scheduler goroutine.
NestedSpec ==
  /\ NestedInit /\ [][NestedNext]_vars
  /\ \A t \in 1..MaxNestedTargets :
       WF_vars(t \in TaskIds /\ NestedTaskStep(t) /\ UNCHANGED restVars)

RowsFor(i) == {r \in Rows(targets) : {r.url} = reqs[i].canonicalURL}

\* requests whose UpsertTargetByURL call reported created=true
CreatedBy(u) == {i \in ReqIds : reqs[i].canonicalURL = u /\ reqs[i].created}

\* C38: concurrent UpsertTargetByURL calls with one canonical URL, each a
\* SELECT followed by an INSERT, in any interleaving.  The table never holds
\* two targets of one URL; at most one call for the URL reports
\* created=true; a call that returned a target returned the one target of
\* the URL (its id, url and host); and once a call has returned, with a
\* target or, having lost the race, with an error, the table holds exactly
\* one target of the URL (a call failed by the store for another reason
\* aside: with no store fault every error is a lost race).
C38_OneTargetPerURLUnderRace ==
  \A i \in ReqIds :
    /\ Cardinality(RowsFor(i)) <= 1
    /\ Cardinality(CreatedBy(reqs[i].canonicalURL)) <= 1
    /\ reqs[i].target # NULL =>
         /\ Cardinality(RowsFor(i)) = 1
         /\ \A r \in RowsFor(i) :
              /\ TheOne(reqs[i].target).ID = r.id
              /\ TheOne(reqs[i].target).URL = r.url
              /\ TheOne(reqs[i].target).Host = r.host
    /\ (storeFaults = 0 /\ reqs[i].status = 500) =>
         /\ Cardinality(RowsFor(i)) = 1
         /\ reqs[i].target = NULL
         /\ ~reqs[i].created

\* two calls for one URL raced: both found no row, one inserted the target
\* and reported created=true, the INSERT of the other failed on the UNIQUE
\* url (no store fault), and the table holds the one target
C38_Witness ==
  /\ storeFaults = 0
  /\ Len(targets) = 1
  /\ \E i, j \in ReqIds :
       /\ reqs[i].canonicalURL = reqs[j].canonicalURL
       /\ reqs[i].created /\ reqs[i].status = 201
       /\ reqs[j].status = 500 /\ reqs[j].pc = "responded"
       /\ reqs[j].target = NULL

\* C39: a POST /v1/targets with a valid URL whose Idempotency-Key is already
\* stored.  When its key lookup is served and finds the key, the request is
\* answered in that step with 200 and the body stored for the key, which is
\* the body another request on that key was answered with when it stored
\* it; no target is selected or inserted for it, tables targets and
\* idempotency_keys stay as they are, and an answered request takes no
\* further step.  The URL of the request plays no part: the stored request
\* hash is not compared.
C39_StoredKeyShortCircuits ==
  [][\A i \in ReqIds :
       /\ (/\ reqs[i].pc = "checkIdempotencyKey"
           /\ reqs'[i] # reqs[i]
           /\ SelectIdempotency(idempotency_keys, reqs[i].key) # {}
           /\ storeFaults' = storeFaults) =>
            LET row == TheOne(SelectIdempotency(idempotency_keys, reqs[i].key))
            IN  /\ reqs'[i].pc = "responded"
                /\ reqs'[i].status = 200
                /\ reqs'[i].response = {StoredResponse(row).ResponseBody}
                /\ reqs'[i].target = NULL
                /\ ~reqs'[i].created
                /\ targets' = targets
                /\ idempotency_keys' = idempotency_keys
                /\ \E j \in ReqIds \ {i} :
                     /\ reqs[j].key = reqs[i].key
                     /\ reqs[j].pc = "responded"
                     /\ reqs[j].status \in {200, 201}
                     /\ reqs[j].response = reqs'[i].response
       /\ reqs[i].pc = "responded" => reqs'[i] = reqs[i]]_vars

\* a request with a stored key and another URL than the request that stored
\* it has been answered 200 with that request's body; the table holds the
\* one target of the first URL and none of the URL of this request
C39_Witness ==
  /\ Len(targets) = 1
  /\ Len(idempotency_keys) = 1
  /\ \E i, j \in ReqIds :
       /\ j < i
       /\ reqs[i].key = "k1" /\ reqs[j].key = "k1"
       /\ reqs[i].canonicalURL # NULL
       /\ reqs[i].canonicalURL # reqs[j].canonicalURL
       /\ reqs[j].status = 201
       /\ reqs[i].pc = "responded" /\ reqs[i].status = 200
       /\ reqs[i].response = reqs[j].response
       /\ reqs[i].target = NULL
       /\ RowsFor(i) = {}

====
